---- MODULE Spec2Model ----
(***************************************************************************)
(* Model of the visibility-score reconciler of DeTT&CT:                    *)
(*   data_source_mapping.py  update_technique_administration_file,         *)
(*                           generate_technique_administration_file        *)
(*   generic.py              get_latest_score_obj and friends,             *)
(*                           load_techniques, backup_file,                 *)
(*                           fix_date_and_remove_null, ask_yes_no,         *)
(*                           ask_multiple_choice                           *)
(* A run of update_technique_administration_file is cut at its interactive *)
(* prompts and at its two file-system effects (backup, write); everything  *)
(* between two such points is one action.                                  *)
(***************************************************************************)
EXTENDS Integers, Sequences, FiniteSets, TLC

(***************************************************************************)
(* Bounds of the model.                                                    *)
(***************************************************************************)
\* scoped visibility records of technique T1 in the file at start
MaxRecs == 3
\* the day of the runs; the entries of the initial file are of this day or older
Today == 2

(***************************************************************************)
(* The ATT&CK data returned by load_attack_data: five techniques, in the   *)
(* order of the taxonomy, each with its platforms, its tactics and its     *)
(* required data sources.  has_data_sources tells whether the technique    *)
(* has the key 'x_mitre_data_sources' at all: T4 has the key with an empty *)
(* list, T5 does not have the key.                                         *)
(***************************************************************************)
AttackTechniques ==
    << [technique_id |-> "T1", x_mitre_platforms |-> <<"Windows", "Linux">>,
        kill_chain_phases |-> <<"Persistence", "Privilege Escalation",
                              "Defense Evasion">>,
        has_data_sources |-> TRUE,
        x_mitre_data_sources |-> <<"proc", "file", "net", "dns">>],
       [technique_id |-> "T2", x_mitre_platforms |-> <<"Windows", "Linux">>,
        kill_chain_phases |-> <<"Discovery">>,
        has_data_sources |-> TRUE,
        x_mitre_data_sources |-> <<"proc", "file", "net">>],
       [technique_id |-> "T3", x_mitre_platforms |-> <<"Windows">>,
        kill_chain_phases |-> <<"Exfiltration">>,
        has_data_sources |-> TRUE,
        x_mitre_data_sources |-> <<"net">>],
       [technique_id |-> "T4", x_mitre_platforms |-> <<"Windows", "Linux">>,
        kill_chain_phases |-> <<"Discovery">>,
        has_data_sources |-> TRUE,
        x_mitre_data_sources |-> <<>>],
       [technique_id |-> "T5", x_mitre_platforms |-> <<"Windows", "Linux">>,
        kill_chain_phases |-> <<"Impact">>,
        has_data_sources |-> FALSE,
        x_mitre_data_sources |-> <<>>] >>

Platforms == {"windows", "linux"}

\* str.lower() / str.upper() on the strings of the model
Lower(s) ==
    CASE s = "Windows" -> "windows"
      [] s = "Linux" -> "linux"
      [] s = "T1" -> "t1"
      [] s = "T2" -> "t2"
      [] OTHER -> s

Upper(s) ==
    CASE s = "t1" -> "T1"
      [] s = "t2" -> "T2"
      [] s = "windows" -> "WINDOWS"
      [] s = "linux" -> "LINUX"
      [] OTHER -> s

\* the exception lists a data source administration file may carry
ExceptionLists == {<<>>, <<"t2">>}

SeqToSet(s) == {s[i] : i \in 1..Len(s)}

\* the number of elements of the list s that are in the set S
RECURSIVE CountIn(_, _)
CountIn(s, S) ==
    IF s = <<>> THEN 0
    ELSE (IF Head(s) \in S THEN 1 ELSE 0) + CountIn(Tail(s), S)

(***************************************************************************)
(* Comments are free text; the model keeps three texts, one of which holds *)
(* the letters "null".                                                     *)
(***************************************************************************)
EmptyComment == ""
PromptComment == "c"

\* the sets of data sources a data source administration file may register
OwnedSets == {{}, {"proc", "file"}, {"proc", "file", "net"}}

(***************************************************************************)
(* generic.py 495-574: the latest entry of a score_logbook.                *)
(* None is the empty sequence, a value v is <<v>>.                         *)
(***************************************************************************)
None == <<>>

\* the outcome of a scan that raised: '>' between a date and a string
TypeError == <<"TypeError", ">">>

\* the scan of lines 507-511: newest_score_obj is replaced by the first
\* entry and then by every entry whose date is strictly greater; the
\* comparison of a date with a string raises TypeError
RECURSIVE ScanNewest(_, _)
ScanNewest(logbook, newest) ==
    IF logbook = <<>> \/ newest = TypeError THEN newest
    ELSE IF newest = None
         THEN ScanNewest(Tail(logbook), <<Head(logbook)>>)
         ELSE IF Head(logbook).date_is_str # newest[1].date_is_str
              THEN TypeError
              ELSE IF Head(logbook).date > newest[1].date
                   THEN ScanNewest(Tail(logbook), <<Head(logbook)>>)
                   ELSE ScanNewest(Tail(logbook), newest)

\* mutant of get_latest_score_obj: the first entry of the list is taken
get_latest_score_obj_First(yaml_object) ==
    IF Len(yaml_object.score_logbook) > 0
    THEN <<yaml_object.score_logbook[1]>>
    ELSE None

get_latest_score_obj(yaml_object) ==
    IF Len(yaml_object.score_logbook) > 0
    THEN ScanNewest(yaml_object.score_logbook, None)
    ELSE None

get_latest_score(yaml_object) ==
    LET score_obj == get_latest_score_obj(yaml_object)
    IN  IF score_obj = TypeError THEN TypeError
        ELSE IF score_obj # None THEN <<score_obj[1].score>> ELSE None

get_latest_date(yaml_object) ==
    LET score_obj == get_latest_score_obj(yaml_object)
    IN  IF score_obj = TypeError THEN TypeError
        ELSE IF score_obj # None THEN <<score_obj[1].date>> ELSE None

get_latest_auto_generated(yaml_object) ==
    LET score_obj == get_latest_score_obj(yaml_object)
    IN  IF score_obj = TypeError THEN TypeError
        ELSE IF score_obj # None THEN score_obj[1].auto_generated ELSE FALSE

get_latest_comment(yaml_object) ==
    LET score_obj == get_latest_score_obj(yaml_object)
    IN  IF score_obj = TypeError THEN TypeError
        ELSE IF score_obj # None
        THEN IF score_obj[1].comment = "" THEN " " ELSE score_obj[1].comment
        ELSE " "

(***************************************************************************)
(* Score entries and the template of a derived technique.                  *)
(* An entry is [date, date_is_str, score, comment, auto_generated]: date   *)
(* is a day number, date_is_str tells whether the value is the string      *)
(* 'YYYY-MM-DD' built by strftime (line 498) or a date loaded from YAML.   *)
(* An entry without the key auto_generated is read as auto_generated =     *)
(* FALSE (generic.py 556-559) and is modelled so.                          *)
(***************************************************************************)
ScoreObj(date, is_str, score, comment, auto) ==
    [date |-> date, date_is_str |-> is_str, score |-> score,
     comment |-> comment, auto_generated |-> auto]

\* constants.YAML_OBJ_TECHNIQUE: one visibility object whose score_logbook
\* holds one auto-generated entry with an empty comment
YAML_OBJ_TECHNIQUE ==
    [technique_id |-> "",
     visibility |-> [score_logbook |-> <<ScoreObj(0, TRUE, 0, EmptyComment, TRUE)>>]]

(***************************************************************************)
(* data_source_mapping.py 481-529: generate_technique_administration_file  *)
(* with write_file=False.  my_data_sources is the set of keys of the       *)
(* registry returned by _load_data_sources.                                *)
(***************************************************************************)
\* mutant of VisibilityScore: the upper bounds are open
VisibilityScore_Open(ds_count, total_ds_count) ==
    IF ds_count = 0 THEN 0
    ELSE IF 100 * ds_count < 49 * total_ds_count THEN 1
    ELSE IF 100 * ds_count < 74 * total_ds_count THEN 2
    ELSE IF 100 * ds_count < 99 * total_ds_count THEN 3
    ELSE 4

\* line 514, on result = 100 * ds_count / total_ds_count (total_ds_count > 0).
\* result is a float; for total_ds_count up to 400 the comparisons of line
\* 514 and of line 222 give what the exact quotient gives.
VisibilityScore(ds_count, total_ds_count) ==
    IF ds_count = 0 THEN 0
    ELSE IF 100 * ds_count <= 49 * total_ds_count THEN 1
    ELSE IF 100 * ds_count <= 74 * total_ds_count THEN 2
    ELSE IF 100 * ds_count <= 99 * total_ds_count THEN 3
    ELSE 4

\* mutant of TechniqueScore: an empty list of data sources scores as a full one
TechniqueScore_EmptyIsFull(t, my_data_sources) ==
    LET total_ds_count == Len(t.x_mitre_data_sources)
        ds_count == CountIn(t.x_mitre_data_sources, my_data_sources)
    IN  IF total_ds_count > 0 THEN VisibilityScore(ds_count, total_ds_count) ELSE 4

\* lines 505-516
TechniqueScore(t, my_data_sources) ==
    LET total_ds_count == Len(t.x_mitre_data_sources)
        ds_count == CountIn(t.x_mitre_data_sources, my_data_sources)
    IN  IF total_ds_count > 0 THEN VisibilityScore(ds_count, total_ds_count) ELSE 0

\* mutant of IsDerived: the score is not looked at
IsDerived_AnyScore(t, my_data_sources, platform, exceptions) ==
    /\ platform \in {Lower(t.x_mitre_platforms[i]) : i \in 1..Len(t.x_mitre_platforms)}
    /\ t.has_data_sources
    /\ t.technique_id \notin {Upper(exceptions[i]) : i \in 1..Len(exceptions)}

\* lines 502-505 and 518-529: is technique t part of the derived set
IsDerived(t, my_data_sources, platform, exceptions) ==
    /\ platform \in {Lower(t.x_mitre_platforms[i]) : i \in 1..Len(t.x_mitre_platforms)}
    /\ t.has_data_sources
    /\ TechniqueScore(t, my_data_sources) > 0
    /\ t.technique_id \notin {Upper(exceptions[i]) : i \in 1..Len(exceptions)}

\* lines 522-529: the technique object appended to yaml_file['techniques']
DerivedTechnique(t, my_data_sources, date) ==
    [technique_id |-> t.technique_id,
     visibility |->
        [score_logbook |->
            <<[YAML_OBJ_TECHNIQUE.visibility.score_logbook[1]
                 EXCEPT !.score = TechniqueScore(t, my_data_sources),
                        !.date = date]>>]]

RECURSIVE DerivedTechniques(_, _, _, _, _)
DerivedTechniques(techniques, my_data_sources, platform, exceptions, date) ==
    IF techniques = <<>> THEN <<>>
    ELSE (IF IsDerived(Head(techniques), my_data_sources, platform, exceptions)
          THEN <<DerivedTechnique(Head(techniques), my_data_sources, date)>>
          ELSE <<>>)
         \o DerivedTechniques(Tail(techniques), my_data_sources, platform,
                              exceptions, date)

generate_technique_administration_file(my_data_sources, platform, exceptions, date) ==
    [platform |-> platform,
     techniques |-> DerivedTechniques(AttackTechniques, my_data_sources,
                                      platform, exceptions, date)]

(***************************************************************************)
(* data_source_mapping.py 211-223: the colour of a technique in the data   *)
(* source layer.  The code names the colours only (COLOR_DS_* are imported *)
(* from constants); the strings below stand for them.  LegendItems is the  *)
(* order of the legend of generic.py 282-291.                              *)
(***************************************************************************)
COLOR_DS_25p == "COLOR_DS_25p"
COLOR_DS_50p == "COLOR_DS_50p"
COLOR_DS_75p == "COLOR_DS_75p"
COLOR_DS_99p == "COLOR_DS_99p"
COLOR_DS_100p == "COLOR_DS_100p"

LegendItems ==
    <<COLOR_DS_25p, COLOR_DS_50p, COLOR_DS_75p, COLOR_DS_99p, COLOR_DS_100p>>

\* mutant of ColorTier: the upper bounds are open
ColorTier_Open(ds_count, total_ds_count) ==
    IF 100 * ds_count < 25 * total_ds_count THEN COLOR_DS_25p
    ELSE IF 100 * ds_count < 50 * total_ds_count THEN COLOR_DS_50p
    ELSE IF 100 * ds_count < 75 * total_ds_count THEN COLOR_DS_75p
    ELSE IF 100 * ds_count < 99 * total_ds_count THEN COLOR_DS_99p
    ELSE COLOR_DS_100p

\* lines 221-223, on result = 100 * ds_count / total_ds_count (total_ds_count > 0)
ColorTier(ds_count, total_ds_count) ==
    IF 100 * ds_count <= 25 * total_ds_count THEN COLOR_DS_25p
    ELSE IF 100 * ds_count <= 50 * total_ds_count THEN COLOR_DS_50p
    ELSE IF 100 * ds_count <= 75 * total_ds_count THEN COLOR_DS_75p
    ELSE IF 100 * ds_count <= 99 * total_ds_count THEN COLOR_DS_99p
    ELSE COLOR_DS_100p

(***************************************************************************)
(* generic.py 586-612: the techniques that use a data source of the        *)
(* administration.  my_data_sources is here the list of the keys of the    *)
(* dict in its order; my_techniques, a dict in insertion order, is the     *)
(* list of its values with the key as technique_id.  The products of a     *)
(* data source are not part of the model.                                  *)
(***************************************************************************)
\* mutant of MapTechnique: a technique keeps the first data source it was
\* matched by and no other
MapTechnique_FirstMatchOnly(my_techniques, i_ds, t) ==
    IF t.has_data_sources
       /\ i_ds \in SeqToSet(t.x_mitre_data_sources)
       /\ \A i \in 1..Len(my_techniques) : my_techniques[i].technique_id # t.technique_id
    THEN Append(my_techniques,
                [technique_id |-> t.technique_id,
                 my_data_sources |-> <<i_ds>>,
                 data_sources |-> t.x_mitre_data_sources,
                 tactics |-> t.kill_chain_phases])
    ELSE my_techniques

\* lines 599-610 for one data source i_ds and one technique t
MapTechnique(my_techniques, i_ds, t) ==
    LET tech_id == t.technique_id
        idx == {i \in 1..Len(my_techniques) : my_techniques[i].technique_id = tech_id}
    IN  IF ~t.has_data_sources THEN my_techniques
        ELSE IF i_ds \in SeqToSet(t.x_mitre_data_sources) /\ idx = {}
        THEN Append(my_techniques,
                    [technique_id |-> tech_id,
                     my_data_sources |-> <<i_ds>>,
                     data_sources |-> t.x_mitre_data_sources,
                     tactics |-> t.kill_chain_phases])
        ELSE IF /\ t.x_mitre_data_sources # <<>>
                /\ i_ds \in SeqToSet(t.x_mitre_data_sources)
                /\ idx # {}
        THEN [my_techniques EXCEPT ![CHOOSE i \in idx : TRUE].my_data_sources =
                                        Append(@, i_ds)]
        ELSE my_techniques

\* the loop of line 596
RECURSIVE MapDataSource(_, _, _)
MapDataSource(my_techniques, i_ds, techniques) ==
    IF techniques = <<>> THEN my_techniques
    ELSE MapDataSource(MapTechnique(my_techniques, i_ds, Head(techniques)),
                       i_ds, Tail(techniques))

\* the loop of line 594
RECURSIVE MapDataSources(_, _, _)
MapDataSources(my_techniques, my_data_sources, techniques) ==
    IF my_data_sources = <<>> THEN my_techniques
    ELSE MapDataSources(MapDataSource(my_techniques, Head(my_data_sources), techniques),
                        Tail(my_data_sources), techniques)

map_techniques_to_data_sources(techniques, my_data_sources) ==
    MapDataSources(<<>>, my_data_sources, techniques)

(***************************************************************************)
(* data_source_mapping.py 202-243: the techniques of the data source       *)
(* layer.  The function reads all techniques of ATT&CK where               *)
(* generate_technique_administration_file reads those of the enterprise    *)
(* matrix; the model gives both the list AttackTechniques.                 *)
(***************************************************************************)
\* tactic.lower().replace(' ', '-') of line 236 on the tactics of the model
TacticName(tactic) ==
    CASE tactic = "Persistence" -> "persistence"
      [] tactic = "Privilege Escalation" -> "privilege-escalation"
      [] tactic = "Defense Evasion" -> "defense-evasion"
      [] tactic = "Discovery" -> "discovery"
      [] tactic = "Exfiltration" -> "exfiltration"
      [] tactic = "Impact" -> "impact"
      [] OTHER -> tactic

\* lines 212-223: the colour of every technique that has a non-empty list
TechniqueColors(techniques, my_ds) ==
    LET coloured == {i \in 1..Len(techniques) :
                        /\ techniques[i].has_data_sources
                        /\ Len(techniques[i].x_mitre_data_sources) > 0}
        of(id) == CHOOSE i \in coloured : techniques[i].technique_id = id
    IN  [id \in {techniques[i].technique_id : i \in coloured} |->
            ColorTier(CountIn(techniques[of(id)].x_mitre_data_sources, SeqToSet(my_ds)),
                      Len(techniques[of(id)].x_mitre_data_sources))]

\* mutant of TacticObjects: one object for the technique, of its first tactic
TacticObjects_FirstOnly(t, v, technique_colors) ==
    [i \in 1..1 |->
        [techniqueID |-> t,
         color |-> technique_colors[t],
         comment |-> "",
         enabled |-> TRUE,
         tactic |-> TacticName(v.tactics[i]),
         available_data_sources |-> v.my_data_sources,
         attack_data_sources |-> v.data_sources]]

\* lines 230-241 for one entry of my_techniques: one object per tactic
TacticObjects(t, v, technique_colors) ==
    [i \in 1..Len(v.tactics) |->
        [techniqueID |-> t,
         color |-> technique_colors[t],
         comment |-> "",
         enabled |-> TRUE,
         tactic |-> TacticName(v.tactics[i]),
         available_data_sources |-> v.my_data_sources,
         attack_data_sources |-> v.data_sources]]

\* the loop of line 228
RECURSIVE OutputTechniques(_, _, _)
OutputTechniques(my_techniques, technique_colors, exceptions) ==
    IF my_techniques = <<>> THEN <<>>
    ELSE (IF Head(my_techniques).technique_id \notin SeqToSet(exceptions)
          THEN TacticObjects(Head(my_techniques).technique_id, Head(my_techniques),
                             technique_colors)
          ELSE <<>>)
         \o OutputTechniques(Tail(my_techniques), technique_colors, exceptions)

map_and_colorize_techniques(my_ds, exceptions) ==
    OutputTechniques(map_techniques_to_data_sources(AttackTechniques, my_ds),
                     TechniqueColors(AttackTechniques, my_ds),
                     exceptions)

(***************************************************************************)
(* The technique administration file.  Its content is                      *)
(*   [platform, techniques], techniques a sequence of                      *)
(*   [technique_id, visibility], visibility a sequence of visibility       *)
(*   objects [score_logbook].                                              *)
(* A technique whose 'visibility' is one object (a dict) is the sequence   *)
(* of that one object (generic.py 689-693, data_source_mapping.py          *)
(* 421-424).  Technique IDs are unique in the file: a duplicate is an      *)
(* error of the file (generic.py 890-901).                                 *)
(***************************************************************************)
VARIABLES
    store,                  \* content of the technique administration file on disk
    backups,                \* backup files of it: suffix n -> content
    today,                  \* the current day
    writes_left,            \* writes of the file the exploration still allows
    pc,                     \* where the current run waits; "idle" between runs
    outcome,                \* how the last run ended
    new_visibility_scores,  \* line 280
    yaml_file_tech_admin,   \* line 297, the structure the run changes
    manually_scored,        \* lines 341-343
    auto_scored,
    mix_scores,
    updated_vis_score_cnt,  \* line 344
    answer,                 \* line 373
    tech_update,            \* line 385
    old_tech_idx,           \* position of the loop of line 416 (1-based)
    obj_idx,                \* line 419 (0-based, as in the code)
    score_updates_handled,  \* line 415
    are_scores_updated,     \* line 309
    prompts,                \* the questions put to the user in this run, with the replies
    at_start,               \* the file and its backups when the run started
    call                    \* a call of a function of generic.py, with its result

vars ==
    << store, backups, today, writes_left, pc, outcome, new_visibility_scores,
       yaml_file_tech_admin, manually_scored, auto_scored, mix_scores,
       updated_vis_score_cnt, answer, tech_update, old_tech_idx, obj_idx,
       score_updates_handled, are_scores_updated, prompts, at_start, call >>

\* generic.py 666-701: load_techniques, as the ordered dictionary
\* technique_id -> visibility objects, and the platform
load_techniques(file) ==
    [my_techniques |->
        [i \in 1..Len(file.techniques) |->
            [technique_id |-> file.techniques[i].technique_id,
             visibility |-> file.techniques[i].visibility]],
     platform |-> file.platform]

TechIdsOf(techniques) == {techniques[i].technique_id : i \in 1..Len(techniques)}

\* data_source_mapping.py 260-269: None when no technique has the ID
get_technique_yaml_obj(techniques, tech_id) ==
    IF \E i \in 1..Len(techniques) : techniques[i].technique_id = tech_id
    THEN <<techniques[CHOOSE i \in 1..Len(techniques) :
                /\ techniques[i].technique_id = tech_id
                /\ \A j \in 1..(i - 1) : techniques[j].technique_id # tech_id]>>
    ELSE None

\* lines 299-306
TechIdsNew(new_scores, cur_visibility_scores) ==
    TechIdsOf(new_scores.techniques) \ TechIdsOf(cur_visibility_scores)

\* mutant of SetComment: the comment is set on the first derived technique only
SetComment_FirstOnly(techniques, comment) ==
    [i \in 1..Len(techniques) |->
        IF i = 1
        THEN [techniques[i] EXCEPT !.visibility.score_logbook[1].comment = comment]
        ELSE techniques[i]]

\* line 325: the comment is set on the score entry of every derived technique
SetComment(techniques, comment) ==
    [i \in 1..Len(techniques) |->
        [techniques[i] EXCEPT !.visibility.score_logbook[1].comment = comment]]

\* mutant of AppendNew: every derived technique is appended
AppendNew_All(yaml_techniques, new_techniques, tech_ids_new) ==
    yaml_techniques \o
    [i \in 1..Len(new_techniques) |->
        [technique_id |-> new_techniques[i].technique_id,
         visibility |-> <<new_techniques[i].visibility>>]]

\* lines 321-331: the derived techniques that are new, appended in order
RECURSIVE AppendNew(_, _, _)
AppendNew(yaml_techniques, new_techniques, tech_ids_new) ==
    IF new_techniques = <<>> THEN yaml_techniques
    ELSE LET new_tech == Head(new_techniques)
         IN  AppendNew(
                IF new_tech.technique_id \in tech_ids_new
                THEN Append(yaml_techniques,
                            [technique_id |-> new_tech.technique_id,
                             visibility |-> <<new_tech.visibility>>])
                ELSE yaml_techniques,
                Tail(new_techniques), tech_ids_new)

(***************************************************************************)
(* Lines 339-365: how the present scores were assigned, and how many can   *)
(* be updated.  The state of the loop is                                   *)
(* [manually_scored, auto_scored, mix_scores, updated_vis_score_cnt].      *)
(***************************************************************************)
\* mutant of ClassifyObjects: every score that differs counts as manual
RECURSIVE ClassifyObjects_AllManual(_, _, _)
ClassifyObjects_AllManual(st, visibility, new_score) ==
    IF visibility = <<>> THEN st
    ELSE ClassifyObjects_AllManual(
            IF get_latest_score(Head(visibility)) # <<new_score>>
            THEN [st EXCEPT !.manually_scored = TRUE, !.updated_vis_score_cnt = @ + 1]
            ELSE st,
            Tail(visibility), new_score)

\* lines 351-359, the visibility objects of one technique
RECURSIVE ClassifyObjects(_, _, _)
ClassifyObjects(st, visibility, new_score) ==
    IF visibility = <<>> THEN st
    ELSE LET cur_obj == Head(visibility)
             old_score == get_latest_score(cur_obj)
             st2 == IF get_latest_auto_generated(cur_obj) /\ old_score # <<new_score>>
                    THEN [st EXCEPT !.auto_scored = TRUE,
                                    !.updated_vis_score_cnt = @ + 1]
                    ELSE IF old_score # <<new_score>>
                    THEN [st EXCEPT !.manually_scored = TRUE,
                                    !.updated_vis_score_cnt = @ + 1]
                    ELSE st
         IN  ClassifyObjects(st2, Tail(visibility), new_score)

\* lines 345-365, the techniques of the file in order, with the break
RECURSIVE ClassifyTechniques(_, _, _)
ClassifyTechniques(st, cur_visibility_scores, new_techniques) ==
    IF cur_visibility_scores = <<>> THEN st
    ELSE LET cur == Head(cur_visibility_scores)
             new_tech == get_technique_yaml_obj(new_techniques, cur.technique_id)
         IN  IF new_tech = None
             THEN ClassifyTechniques(st, Tail(cur_visibility_scores), new_techniques)
             ELSE LET st2 == ClassifyObjects(st, cur.visibility,
                                new_tech[1].visibility.score_logbook[1].score)
                  IN  IF st2.manually_scored /\ st2.auto_scored
                      THEN [st2 EXCEPT !.mix_scores = TRUE,
                                       !.manually_scored = FALSE,
                                       !.auto_scored = FALSE]
                      ELSE ClassifyTechniques(st2, Tail(cur_visibility_scores),
                                              new_techniques)

Classify(cur_visibility_scores, new_techniques) ==
    ClassifyTechniques(
        [manually_scored |-> FALSE, auto_scored |-> FALSE, mix_scores |-> FALSE,
         updated_vis_score_cnt |-> 0],
        cur_visibility_scores, new_techniques)

(***************************************************************************)
(* Lines 372-381: the strategy menu.  The answers are the constants        *)
(* V_UPDATE_ANSWER_*; ask_multiple_choice returns one element of the list  *)
(* it was given.                                                           *)
(* The code names the constants only (they are imported from constants);   *)
(* the strings below stand for them and are pairwise different.            *)
(***************************************************************************)
V_UPDATE_ANSWER_1 == "apply all automatically"
V_UPDATE_ANSWER_2 == "review each"
V_UPDATE_ANSWER_3 == "auto-generated only"
V_UPDATE_ANSWER_4 == "auto-generated automatically, manual reviewed"
V_UPDATE_ANSWER_CANCEL == "cancel"
V_UPDATE_ACTION_AUTO == "auto"
V_UPDATE_ACTION_DIFF == "diff"
NoAnswer == "0"

MenuAnswers(manual, auto, mix) ==
    IF manual THEN <<V_UPDATE_ANSWER_1, V_UPDATE_ANSWER_2, V_UPDATE_ANSWER_CANCEL>>
    ELSE IF auto THEN <<V_UPDATE_ANSWER_1, V_UPDATE_ANSWER_2, V_UPDATE_ANSWER_CANCEL>>
    ELSE IF mix THEN <<V_UPDATE_ANSWER_3, V_UPDATE_ANSWER_4, V_UPDATE_ANSWER_1,
                       V_UPDATE_ANSWER_2, V_UPDATE_ANSWER_CANCEL>>
    ELSE <<>>

(***************************************************************************)
(* Lines 383-412: tech_update, technique_id -> obj_idx -> action.          *)
(***************************************************************************)
\* lines 403-411: None when no action is set for the object
UpdateAction(ans, auto_gen) ==
    IF ans = V_UPDATE_ANSWER_1 \/ (ans = V_UPDATE_ANSWER_3 /\ auto_gen)
    THEN <<V_UPDATE_ACTION_AUTO>>
    ELSE IF ans = V_UPDATE_ANSWER_2 THEN <<V_UPDATE_ACTION_DIFF>>
    ELSE IF ans = V_UPDATE_ANSWER_4
    THEN IF auto_gen THEN <<V_UPDATE_ACTION_AUTO>> ELSE <<V_UPDATE_ACTION_DIFF>>
    ELSE None

\* line 399: the objects (0-based) whose latest score differs from new_score
ChangedObjects(visibility, new_score) ==
    {i - 1 : i \in {j \in 1..Len(visibility) :
                        get_latest_score(visibility[j]) # <<new_score>>}}

BuildTechUpdate(new_techniques, cur_visibility_scores, ans) ==
    LET NewOf(tid) == get_technique_yaml_obj(new_techniques, tid)[1]
        CurOf(tid) == get_technique_yaml_obj(cur_visibility_scores, tid)[1]
        ScoreObjOf(tid) == NewOf(tid).visibility.score_logbook[1]
        Changed(tid) == ChangedObjects(CurOf(tid).visibility, ScoreObjOf(tid).score)
        tids == {tid \in TechIdsOf(new_techniques) \cap TechIdsOf(cur_visibility_scores) :
                    Changed(tid) # {}}
    IN  [tid \in tids |->
            [oi \in {o \in Changed(tid) :
                        UpdateAction(ans, get_latest_auto_generated(
                            CurOf(tid).visibility[o + 1])) # None} |->
                [action |-> UpdateAction(ans, get_latest_auto_generated(
                                CurOf(tid).visibility[oi + 1]))[1],
                 score_obj |-> ScoreObjOf(tid)]]]

(***************************************************************************)
(* Lines 414-465: the actions are performed.                               *)
(***************************************************************************)
\* list.insert(0, x)
InsertHead(logbook, score_obj) == <<score_obj>> \o logbook

\* mutant of InsertScore: the entry is inserted into every visibility object
\* of the technique
InsertScore_AllObjects(yaml, ti, oi, score_obj) ==
    [yaml EXCEPT !.techniques[ti].visibility =
        [j \in 1..Len(@) |->
            [@[j] EXCEPT !.score_logbook = InsertHead(@, score_obj)]]]

\* lines 434 and 459
InsertScore(yaml, ti, oi, score_obj) ==
    [yaml EXCEPT !.techniques[ti].visibility[oi + 1].score_logbook =
                    InsertHead(@, score_obj)]

\* line 426: the objects 0..len(tech_update[tech_id]) are looked at
LoopCondition(oi, updates) == oi <= Cardinality(DOMAIN updates)

\* The loops of lines 416-465 from position (ti, oi) on, up to the next
\* question of line 457 (stop = "review") or to their end (stop = "end").
RECURSIVE ApplyLoop(_, _, _, _, _, _)
ApplyLoop(yaml, updates, ti, oi, handled, updated) ==
    IF ti > Len(yaml.techniques)
    THEN [yaml |-> yaml, ti |-> ti, oi |-> oi, handled |-> handled,
          updated |-> updated, stop |-> "end"]
    ELSE LET tech_id == yaml.techniques[ti].technique_id
         IN  IF tech_id \notin DOMAIN updates
             THEN ApplyLoop(yaml, updates, ti + 1, 0, handled, updated)
             ELSE IF ~LoopCondition(oi, updates[tech_id])
             THEN ApplyLoop(yaml, updates, ti + 1, 0, handled, updated)
             ELSE IF oi \notin DOMAIN updates[tech_id]
             THEN ApplyLoop(yaml, updates, ti, oi + 1, handled, updated)
             ELSE IF updates[tech_id][oi].action = V_UPDATE_ACTION_AUTO
             THEN ApplyLoop(InsertScore(yaml, ti, oi, updates[tech_id][oi].score_obj),
                            updates, ti, oi + 1, handled + 1, TRUE)
             ELSE [yaml |-> yaml, ti |-> ti, oi |-> oi, handled |-> handled,
                   updated |-> updated, stop |-> "review"]

(***************************************************************************)
(* generic.py 372-385: backup_file copies the file to the first name       *)
(* '<name>_backup_<n>.yaml', n = 1, 2, ..., that does not exist.           *)
(***************************************************************************)
\* mutant of BackupSuffix: the first suffix is taken, free or not
BackupSuffix_First(existing, suffix) == suffix

RECURSIVE BackupSuffix(_, _)
BackupSuffix(existing, suffix) ==
    IF suffix \in existing THEN BackupSuffix(existing, suffix + 1) ELSE suffix

\* mutant of backup_file: no copy is made
backup_file_NoCopy(files, content) == files

backup_file(files, content) ==
    LET n == BackupSuffix(DOMAIN files, 1)
    IN  [k \in DOMAIN files \cup {n} |-> IF k = n THEN content ELSE files[k]]

(***************************************************************************)
(* generic.py 468-492 and data_source_mapping.py 472-475: the structure is *)
(* dumped, every line loses the letters 'null', a date line loses the      *)
(* quotes around the run date, and the lines are written.  On the content  *)
(* read back: a comment loses the letters 'null' and an entry whose date   *)
(* is the string of the run date has a date.                               *)
(***************************************************************************)
RemoveNull(text) == IF text = "null m" THEN "m" ELSE text

FixScoreObj(score_obj, date) ==
    [score_obj EXCEPT !.comment = RemoveNull(@),
                      !.date_is_str = IF score_obj.date = date THEN FALSE ELSE @]

fix_date_and_remove_null(yaml, date) ==
    [yaml EXCEPT !.techniques =
        [i \in 1..Len(yaml.techniques) |->
            [yaml.techniques[i] EXCEPT !.visibility =
                [j \in 1..Len(yaml.techniques[i].visibility) |->
                    [score_logbook |->
                        [k \in 1..Len(yaml.techniques[i].visibility[j].score_logbook) |->
                            FixScoreObj(yaml.techniques[i].visibility[j].score_logbook[k],
                                        date)]]]]]]

(***************************************************************************)
(* Initial states: a technique administration file of platform "windows"   *)
(* that holds technique T1 with 1..MaxRecs visibility objects and may hold *)
(* technique T2 with one; no backup file; no run started.                  *)
(* A score_logbook of the file is one of InitLogbooks: one auto-generated  *)
(* entry, one manual entry, or an older manual entry followed by a newer   *)
(* auto-generated one (the latest entry is then not the first).            *)
(***************************************************************************)
InitLogbooks ==
    { <<ScoreObj(Today, FALSE, 2, EmptyComment, TRUE)>>,
      <<ScoreObj(Today, FALSE, 2, "null m", FALSE)>>,
      <<ScoreObj(Today, FALSE, 3, "m", FALSE)>>,
      <<ScoreObj(Today - 1, FALSE, 2, "m", FALSE),
        ScoreObj(Today, FALSE, 3, EmptyComment, TRUE)>> }

InitVisibility(n) == [1..n -> {[score_logbook |-> l] : l \in InitLogbooks}]

InitTechniques ==
    UNION {
        {<<[technique_id |-> "T1", visibility |-> v1]>>
         \o (IF n2 > 0 THEN <<[technique_id |-> "T2", visibility |-> v2]>> ELSE <<>>) :
            v1 \in InitVisibility(n1), v2 \in InitVisibility(n2)} :
        n1 \in 1..MaxRecs, n2 \in 0..1 }

NoScores == [platform |-> "", techniques |-> <<>>]

NoCall == [op |-> "none"]

\* the state before the first run, for a file content and a number of writes
InitWith(content, n) ==
    /\ store = content
    /\ backups = <<>>
    /\ today = Today
    /\ writes_left = n
    /\ pc = "idle"
    /\ outcome = "none"
    /\ new_visibility_scores = NoScores
    /\ yaml_file_tech_admin = NoScores
    /\ manually_scored = FALSE
    /\ auto_scored = FALSE
    /\ mix_scores = FALSE
    /\ updated_vis_score_cnt = 0
    /\ answer = NoAnswer
    /\ tech_update = <<>>
    /\ old_tech_idx = 1
    /\ obj_idx = 0
    /\ score_updates_handled = 0
    /\ are_scores_updated = FALSE
    /\ prompts = <<>>
    /\ at_start = [store |-> content, backups |-> <<>>]

\* a behaviour ends with the first run that writes the file (runs that write
\* nothing can follow each other without bound)
Init ==
    /\ \E t \in InitTechniques : InitWith([platform |-> "windows", techniques |-> t], 1)
    /\ call = NoCall

\* cur_visibility_scores of line 286: the file does not change during a run
cur_visibility_scores == load_techniques(store).my_techniques

(***************************************************************************)
(* The steps of update_technique_administration_file.                      *)
(***************************************************************************)
\* mutant of PlatformMismatch: the platforms are not compared
PlatformMismatch_Unchecked(new_scores, platform_tech_admin) == FALSE

\* line 289: the platforms of the derived set and of the file differ
PlatformMismatch(new_scores, platform_tech_admin) ==
    new_scores.platform # platform_tech_admin

\* mutant of IsCancel: the answer cancel is not acted on
IsCancel_Ignored(ans) == FALSE

\* line 380
IsCancel(ans) == ans = V_UPDATE_ANSWER_CANCEL

\* the run returns (or raises): control is back at the caller
EndRun(how) ==
    /\ pc' = "idle"
    /\ outcome' = how

\* mutant of Persist: the run ends without writing
Persist_Skipped(updated) == EndRun("unchanged")

\* mutant of Persist: the file is backed up and written in any case
Persist_Always(updated) ==
    /\ pc' = "backup"
    /\ outcome' = "running"

\* lines 467-478: the decision to back up and write
Persist(updated) ==
    IF updated
    THEN /\ pc' = "backup"
         /\ outcome' = "running"
    ELSE EndRun("unchanged")

\* the loops of lines 414-465 are run from (ti, oi) on
ContinueApply(yaml, updates, ti, oi, handled, updated) ==
    LET r == ApplyLoop(yaml, updates, ti, oi, handled, updated)
    IN  /\ yaml_file_tech_admin' = r.yaml
        /\ old_tech_idx' = r.ti
        /\ obj_idx' = r.oi
        /\ score_updates_handled' = r.handled
        /\ are_scores_updated' = r.updated
        /\ IF r.stop = "review"
           THEN /\ pc' = "review"
                /\ outcome' = "running"
           ELSE Persist(r.updated)

\* lines 339-371: classification; the menu is shown when a flag is set
ClassifyAndAsk(yaml, new_scores, updated) ==
    LET st == Classify(cur_visibility_scores, new_scores.techniques)
    IN  /\ yaml_file_tech_admin' = yaml
        /\ new_visibility_scores' = new_scores
        /\ are_scores_updated' = updated
        /\ manually_scored' = st.manually_scored
        /\ auto_scored' = st.auto_scored
        /\ mix_scores' = st.mix_scores
        /\ updated_vis_score_cnt' = st.updated_vis_score_cnt
        /\ answer' = NoAnswer
        /\ tech_update' = <<>>
        /\ old_tech_idx' = 1
        /\ obj_idx' = 0
        /\ score_updates_handled' = 0
        /\ IF ~st.mix_scores /\ ~st.manually_scored /\ ~st.auto_scored
           THEN Persist(updated)
           ELSE /\ pc' = "menu"
                /\ outcome' = "running"

\* lines 279-311: the derived set is generated, the file is loaded, the
\* platforms are compared and the new technique IDs are collected
StartRun(my_data_sources, platform, exceptions) ==
    /\ pc = "idle"
    /\ writes_left > 0
    /\ at_start' = [store |-> store, backups |-> backups]
    /\ prompts' = <<>>
    /\ UNCHANGED <<store, backups, today, writes_left, call>>
    /\ LET new_scores == generate_technique_administration_file(
                            my_data_sources, platform, exceptions, today)
           reset == /\ yaml_file_tech_admin' = NoScores
                    /\ manually_scored' = FALSE
                    /\ auto_scored' = FALSE
                    /\ mix_scores' = FALSE
                    /\ updated_vis_score_cnt' = 0
                    /\ answer' = NoAnswer
                    /\ tech_update' = <<>>
                    /\ old_tech_idx' = 1
                    /\ obj_idx' = 0
                    /\ score_updates_handled' = 0
                    /\ are_scores_updated' = FALSE
       IN  IF new_scores.techniques = <<>>
           THEN \* line 283: techniques[0] of an empty list raises IndexError
                /\ new_visibility_scores' = new_scores
                /\ reset
                /\ EndRun("error")
           ELSE IF PlatformMismatch(new_scores, load_techniques(store).platform)
           THEN \* lines 289-292
                /\ new_visibility_scores' = new_scores
                /\ reset
                /\ EndRun("refused")
           ELSE IF TechIdsNew(new_scores, cur_visibility_scores) # {}
           THEN \* line 315: the comment question is put
                /\ new_visibility_scores' = new_scores
                /\ reset
                /\ pc' = "comment"
                /\ outcome' = "running"
           ELSE ClassifyAndAsk(store, new_scores, FALSE)

\* lines 314-337: the reply to the comment question (fill_in = the reply of
\* ask_yes_no, text = the comment typed); the new techniques are appended
AnswerComment(fill_in, text) ==
    /\ pc = "comment"
    /\ LET comment == IF fill_in THEN text ELSE EmptyComment
           new_scores == [new_visibility_scores EXCEPT
                            !.techniques = SetComment(@, comment)]
           yaml == [store EXCEPT !.techniques =
                        AppendNew(@, new_scores.techniques,
                                  TechIdsNew(new_scores, cur_visibility_scores))]
       IN  /\ prompts' = Append(prompts, [kind |-> "comment", tech_id |-> "",
                                         obj_idx |-> 0, yes |-> fill_in,
                                         remaining |-> 0])
           /\ ClassifyAndAsk(yaml, new_scores, TRUE)
    /\ UNCHANGED <<store, backups, today, writes_left, at_start, call>>

\* lines 372-412 and the loops of 414-465 up to the first question: the reply
\* to the strategy menu
AnswerMenu(ans) ==
    /\ pc = "menu"
    /\ ans \in SeqToSet(MenuAnswers(manually_scored, auto_scored, mix_scores))
    /\ answer' = ans
    /\ prompts' = Append(prompts, [kind |-> "menu", tech_id |-> "", obj_idx |-> 0,
                                   yes |-> ans # V_UPDATE_ANSWER_CANCEL,
                                   remaining |-> 0])
    /\ IF IsCancel(ans)
       THEN /\ EndRun("cancelled")
            /\ UNCHANGED <<yaml_file_tech_admin, tech_update, old_tech_idx, obj_idx,
                           score_updates_handled, are_scores_updated>>
       ELSE LET updates == BuildTechUpdate(new_visibility_scores.techniques,
                                           cur_visibility_scores, ans)
            IN  /\ tech_update' = updates
                /\ ContinueApply(yaml_file_tech_admin, updates, 1, 0, 0,
                                 are_scores_updated)
    /\ UNCHANGED <<store, backups, today, writes_left, at_start, call, new_visibility_scores,
                   manually_scored, auto_scored, mix_scores, updated_vis_score_cnt>>

\* lines 437-465: the reply to 'Update the score?' for the object at
\* (old_tech_idx, obj_idx), and the loops up to the next question
AnswerReview(yes) ==
    /\ pc = "review"
    /\ LET tech_id == yaml_file_tech_admin.techniques[old_tech_idx].technique_id
           new_score_obj == tech_update[tech_id][obj_idx].score_obj
           yaml == IF yes
                   THEN InsertScore(yaml_file_tech_admin, old_tech_idx, obj_idx,
                                    new_score_obj)
                   ELSE yaml_file_tech_admin
       IN  /\ prompts' = Append(prompts,
                            [kind |-> "review", tech_id |-> tech_id,
                             obj_idx |-> obj_idx, yes |-> yes,
                             remaining |-> updated_vis_score_cnt - score_updates_handled])
           /\ ContinueApply(yaml, tech_update, old_tech_idx, obj_idx + 1,
                            score_updates_handled + 1, are_scores_updated \/ yes)
    /\ UNCHANGED <<store, backups, today, writes_left, at_start, call, new_visibility_scores,
                   manually_scored, auto_scored, mix_scores, updated_vis_score_cnt,
                   answer, tech_update>>

\* line 470: backup_file(file_tech_admin)
Backup ==
    /\ pc = "backup"
    /\ backups' = backup_file(backups, store)
    /\ pc' = "write"
    /\ UNCHANGED <<store, today, writes_left, outcome, new_visibility_scores,
                   yaml_file_tech_admin, manually_scored, auto_scored, mix_scores,
                   updated_vis_score_cnt, answer, tech_update, old_tech_idx, obj_idx,
                   score_updates_handled, are_scores_updated, prompts, at_start, call>>

\* lines 472-476: the fixed-up lines are written to the file
Write ==
    /\ pc = "write"
    /\ store' = fix_date_and_remove_null(yaml_file_tech_admin, today)
    /\ writes_left' = writes_left - 1
    /\ EndRun("written")
    /\ UNCHANGED <<backups, today, new_visibility_scores,
                   yaml_file_tech_admin, manually_scored, auto_scored, mix_scores,
                   updated_vis_score_cnt, answer, tech_update, old_tech_idx, obj_idx,
                   score_updates_handled, are_scores_updated, prompts, at_start, call>>

Next ==
    \/ \E ds \in OwnedSets, p \in Platforms, ex \in ExceptionLists :
            StartRun(ds, p, ex)
    \/ \E fill_in \in BOOLEAN : AnswerComment(fill_in, PromptComment)
    \/ \E ans \in {V_UPDATE_ANSWER_1, V_UPDATE_ANSWER_2, V_UPDATE_ANSWER_3,
                   V_UPDATE_ANSWER_4, V_UPDATE_ANSWER_CANCEL} : AnswerMenu(ans)
    \/ \E yes \in BOOLEAN : AnswerReview(yes)
    \/ Backup
    \/ Write

Spec == Init /\ [][Next]_vars

(***************************************************************************)
(* Sequences of runs on the same file: up to MaxWrites runs write the      *)
(* file, which starts with technique T1 and one visibility object.         *)
(***************************************************************************)
MaxWrites == 2

InitRuns ==
    /\ \E l \in InitLogbooks :
            InitWith([platform |-> "windows",
                      techniques |-> <<[technique_id |-> "T1",
                                        visibility |-> <<[score_logbook |-> l]>>]>>],
                     MaxWrites)
    /\ call = NoCall

SpecRuns == InitRuns /\ [][Next]_vars

(***************************************************************************)
(* The score and the colour of a technique with total_ds_count required    *)
(* data sources, 1..MaxRequired, of which ds_count are owned.              *)
(***************************************************************************)
MaxRequired == 100

InitScore ==
    /\ InitWith(NoScores, 0)
    /\ call \in {[op |-> "counts", ds_count |-> d, total_ds_count |-> t] :
                    d \in 0..MaxRequired, t \in 1..MaxRequired}
    /\ call.ds_count <= call.total_ds_count

\* lines 505-514 and 214-223 for the counts of the call
ScoreCounts ==
    /\ call.op = "counts"
    /\ call' = [op |-> "scored",
                ds_count |-> call.ds_count,
                total_ds_count |-> call.total_ds_count,
                score |-> VisibilityScore(call.ds_count, call.total_ds_count),
                color |-> ColorTier(call.ds_count, call.total_ds_count)]
    /\ UNCHANGED <<store, backups, today, writes_left, pc, outcome,
                   new_visibility_scores, yaml_file_tech_admin, manually_scored,
                   auto_scored, mix_scores, updated_vis_score_cnt, answer, tech_update,
                   old_tech_idx, obj_idx, score_updates_handled, are_scores_updated,
                   prompts, at_start>>

NextScore == ScoreCounts

SpecScore == InitScore /\ [][NextScore]_vars

(***************************************************************************)
(* The layer and the derived set of one data source administration: its    *)
(* data sources are any of DataSourceNames in any order, its exceptions    *)
(* are written in either case.                                             *)
(***************************************************************************)
DataSourceNames == {"proc", "file", "net", "dns"}

DataSourceLists ==
    {l \in UNION {[1..n -> DataSourceNames] : n \in 0..Cardinality(DataSourceNames)} :
        \A i, j \in 1..Len(l) : i # j => l[i] # l[j]}

InitLayer ==
    /\ InitWith(NoScores, 0)
    /\ call \in {[op |-> "data_sources", my_ds |-> l, platform |-> p, exceptions |-> e] :
                    l \in DataSourceLists, p \in Platforms,
                    e \in ExceptionLists \cup {<<"T2">>}}

\* data_source_mapping.py 202-243 and 488-529 on the administration of the call
GenerateBoth ==
    /\ call.op = "data_sources"
    /\ call' = [op |-> "generated",
                my_ds |-> call.my_ds,
                platform |-> call.platform,
                exceptions |-> call.exceptions,
                layer |-> map_and_colorize_techniques(call.my_ds, call.exceptions),
                derived |-> generate_technique_administration_file(
                                SeqToSet(call.my_ds), call.platform,
                                call.exceptions, Today).techniques]
    /\ UNCHANGED <<store, backups, today, writes_left, pc, outcome,
                   new_visibility_scores, yaml_file_tech_admin, manually_scored,
                   auto_scored, mix_scores, updated_vis_score_cnt, answer, tech_update,
                   old_tech_idx, obj_idx, score_updates_handled, are_scores_updated,
                   prompts, at_start>>

NextLayer == GenerateBoth

SpecLayer == InitLayer /\ [][NextLayer]_vars

(***************************************************************************)
(* data_source_mapping.py 165-199: _load_data_sources on the parsed        *)
(* content of a data source administration file, and the statement         *)
(* "my_data_sources, name, platform, exceptions = _load_data_sources(...)" *)
(* of its four callers (lines 17, 38, 69 and 488).                         *)
(* yaml_content is [keys, data_sources]: keys are the top-level keys the   *)
(* document has; a data source d may lack the key data_source_name or the  *)
(* key data_quality.  The registry my_data_sources, a dict in insertion    *)
(* order, is the list of its values.  A KeyError is the string KeyError.   *)
(***************************************************************************)
MaxSources == 2

TopLevelKeys == {"data_sources", "name", "platform", "exceptions"}

KeyError == "KeyError"

DataQuality(dc, dfc, t, c, r) ==
    [device_completeness |-> dc, data_field_completeness |-> dfc,
     timeliness |-> t, consistency |-> c, retention |-> r]

\* the scores of the data sources of the model: every dimension positive,
\* retention alone zero, one of the four other dimensions zero, all zero
DataQualities ==
    {DataQuality(1, 2, 1, 1, 1), DataQuality(1, 2, 1, 1, 0),
     DataQuality(0, 2, 1, 1, 1), DataQuality(1, 0, 1, 1, 1),
     DataQuality(1, 2, 0, 1, 1), DataQuality(1, 2, 1, 0, 1),
     DataQuality(0, 0, 0, 0, 0)}

DataSourceObjects ==
    [has_name : {TRUE}, data_source_name : {"proc", "file"},
     has_data_quality : {TRUE}, data_quality : DataQualities]
    \cup [has_name : {FALSE}, data_source_name : {""},
          has_data_quality : {TRUE}, data_quality : DataQualities]
    \cup [has_name : BOOLEAN, data_source_name : {"net"},
          has_data_quality : {FALSE}, data_quality : {DataQuality(0, 0, 0, 0, 0)}]

\* mutant of PassesFilter: retention is a fifth required dimension
PassesFilter_WithRetention(dq) ==
    /\ dq.device_completeness > 0
    /\ dq.data_field_completeness > 0
    /\ dq.timeliness > 0
    /\ dq.consistency > 0
    /\ dq.retention > 0

\* line 187
PassesFilter(dq) ==
    /\ dq.device_completeness > 0
    /\ dq.data_field_completeness > 0
    /\ dq.timeliness > 0
    /\ dq.consistency > 0

\* my_data_sources[d['data_source_name']] = d
SetDataSource(my_data_sources, d) ==
    LET idx == {i \in 1..Len(my_data_sources) :
                    my_data_sources[i].data_source_name = d.data_source_name}
    IN  IF idx = {} THEN Append(my_data_sources, d)
        ELSE [my_data_sources EXCEPT ![CHOOSE i \in idx : TRUE] = d]

\* lines 183-188: the loop over yaml_content['data_sources']
RECURSIVE LoadLoop(_, _, _)
LoadLoop(my_data_sources, data_sources, filter_empty_scores) ==
    IF data_sources = <<>> THEN my_data_sources
    ELSE LET d == Head(data_sources)
         IN  IF ~d.has_data_quality THEN KeyError
             ELSE IF ~filter_empty_scores \/ PassesFilter(d.data_quality)
             THEN IF ~d.has_name THEN KeyError
                  ELSE LoadLoop(SetDataSource(my_data_sources, d),
                                Tail(data_sources), filter_empty_scores)
             ELSE LoadLoop(my_data_sources, Tail(data_sources), filter_empty_scores)

\* lines 171-199; the result is None (<<>>) or <<my_data_sources>>, the
\* first of the four values returned
load_data_sources(yaml_content, filter_empty_scores) ==
    IF "data_sources" \notin yaml_content.keys THEN None
    ELSE LET my_data_sources ==
                 LoadLoop(<<>>, yaml_content.data_sources, filter_empty_scores)
         IN  IF my_data_sources = KeyError THEN None
             ELSE IF {"name", "platform", "exceptions"} \subseteq yaml_content.keys
             THEN <<my_data_sources>>
             ELSE None

InitLoad ==
    /\ InitWith(NoScores, 0)
    /\ call \in {[op |-> "file",
                   yaml_content |-> [keys |-> k, data_sources |-> l],
                   filter_empty_scores |-> f] :
                    k \in {TopLevelKeys} \cup {TopLevelKeys \ {m} : m \in TopLevelKeys},
                    l \in UNION {[1..n -> DataSourceObjects] : n \in 0..MaxSources},
                    f \in BOOLEAN}

\* lines 171-199: the call of _load_data_sources; printed tells whether
\* the parsed content was printed (lines 195-196)
LoadDataSources ==
    /\ call.op = "file"
    /\ LET result == load_data_sources(call.yaml_content, call.filter_empty_scores)
       IN  call' = [call EXCEPT !.op = "returned"]
                   @@ [result |-> result, printed |-> (result = None)]
    /\ UNCHANGED <<store, backups, today, writes_left, pc, outcome,
                   new_visibility_scores, yaml_file_tech_admin, manually_scored,
                   auto_scored, mix_scores, updated_vis_score_cnt, answer, tech_update,
                   old_tech_idx, obj_idx, score_updates_handled, are_scores_updated,
                   prompts, at_start>>

\* lines 17, 38, 69, 488: the caller unpacks the result into four names,
\* which raises TypeError on None, and goes on to its output otherwise
UnpackResult ==
    /\ call.op = "returned"
    /\ call' = [call EXCEPT !.op = IF call.result = None THEN "TypeError" ELSE "output"]
    /\ UNCHANGED <<store, backups, today, writes_left, pc, outcome,
                   new_visibility_scores, yaml_file_tech_admin, manually_scored,
                   auto_scored, mix_scores, updated_vis_score_cnt, answer, tech_update,
                   old_tech_idx, obj_idx, score_updates_handled, are_scores_updated,
                   prompts, at_start>>

NextLoad == LoadDataSources \/ UnpackResult

SpecLoad == InitLoad /\ [][NextLoad]_vars

(***************************************************************************)
(* generic.py 815-965 and 1007-1026: check_file and the health check of a  *)
(* YAML file, with the two cache files of the file (its modification time  *)
(* and its error state; None while the cache file does not exist).         *)
(*                                                                         *)
(* A technique administration file is here a list of techniques with one   *)
(* detection and one visibility object each.  An object is [keys,          *)
(* applicable_to, score]: the keys it has, its labels (a label is the list *)
(* of its characters) and the score of the one entry of its score_logbook. *)
(* Of the violations the health check looks for, the files of the model    *)
(* show a duplicate technique ID, a score out of range, a missing          *)
(* score_logbook and labels that are nearly the same.  A file of another   *)
(* type has no content the health check reads.  check_file is called with  *)
(* the file type of the file.                                              *)
(* upgrade_yaml_file (line 1021) is defined in upgrade.py; the files of    *)
(* the model are of the current version, which it leaves alone.            *)
(***************************************************************************)
MaxMtime == 2

FILE_TYPE_TECHNIQUE_ADMINISTRATION == "technique-administration"
FILE_TYPE_OTHER == "other"

\* the number of matching characters SequenceMatcher(None, a, b) finds
\* (line 948): the longest common block, the first in a and then in b,
\* and the same to the left and to the right of it
RECURSIVE Matches(_, _)
Matches(a, b) ==
    LET blocks == {x \in (1..Len(a)) \X (1..Len(b)) \X (1..Len(a)) :
                        /\ x[1] + x[3] - 1 <= Len(a)
                        /\ x[2] + x[3] - 1 <= Len(b)
                        /\ \A k \in 0..(x[3] - 1) : a[x[1] + k] = b[x[2] + k]}
    IN  IF blocks = {} THEN 0
        ELSE LET best == CHOOSE x \in blocks : \A y \in blocks :
                            \/ x[3] > y[3]
                            \/ x[3] = y[3] /\ x[1] < y[1]
                            \/ x[3] = y[3] /\ x[1] = y[1] /\ x[2] <= y[2]
             IN  best[3]
                 + Matches(SubSeq(a, 1, best[1] - 1), SubSeq(b, 1, best[2] - 1))
                 + Matches(SubSeq(a, best[1] + best[3], Len(a)),
                           SubSeq(b, best[2] + best[3], Len(b)))

\* line 949 on ratio = 2 * Matches / (Len(a) + Len(b))
VerySimilar(a, b) ==
    /\ 10 * 2 * Matches(a, b) > 8 * (Len(a) + Len(b))
    /\ 2 * Matches(a, b) # Len(a) + Len(b)

HealthObject(keys, applicable_to, score) ==
    [keys |-> keys, applicable_to |-> applicable_to, score |-> score]

DetectionKeys == {"applicable_to", "location", "comment", "score_logbook"}
VisibilityKeys == {"applicable_to", "comment", "score_logbook"}

\* the labels of the files are 'all' and 'alls'
HealthFiles ==
    LET LabelAll == <<"a", "l", "l">>
        LabelAlls == <<"a", "l", "l", "s">>
        visibility == {HealthObject(VisibilityKeys, <<LabelAll>>, 2),
                       HealthObject(VisibilityKeys, <<LabelAlls>>, 2),
                       HealthObject(VisibilityKeys, <<LabelAll>>, 5),
                       HealthObject(VisibilityKeys \ {"score_logbook"}, <<LabelAll>>, 2)}
        technique(id) == {[technique_id |-> id,
                           detection |-> <<HealthObject(DetectionKeys, <<LabelAll>>, 1)>>,
                           visibility |-> <<v>>] : v \in visibility}
    IN  {[file_type |-> FILE_TYPE_OTHER, techniques |-> <<>>]}
        \cup {[file_type |-> FILE_TYPE_TECHNIQUE_ADMINISTRATION, techniques |-> l] :
                l \in {<<t>> : t \in technique("T1")}
                      \cup {<<t, u>> : t \in technique("T1"),
                                       u \in technique("T1") \cup technique("T2")}}

\* lines 710-772 on an object of the model: KeyError of line 730 when the
\* object has no score_logbook, else has_error as "True" or "False": is
\* the score out of range
check_health_score_object(yaml_object, object_type) ==
    LET min_score == IF object_type = "detection" THEN -1 ELSE 0
        max_score == IF object_type = "detection" THEN 5 ELSE 4
    IN  IF "score_logbook" \notin yaml_object.keys THEN KeyError
        ELSE IF ~(yaml_object.score >= min_score /\ yaml_object.score <= max_score)
        THEN "True"
        ELSE "False"

\* lines 888-963, the validation of a technique administration file:
\* [raised, has_error, similar].  techniques[0] of line 916 maps a technique ID to a
\* dict with the keys detection and visibility (lines 659-663), which is
\* the dict v that line 920 looks into for the key applicable_to.
ValidateTechniques(file) ==
    LET techniques == file.techniques
        objects(key) == {techniques[i][key][1] : i \in 1..Len(techniques)}
        duplicate == \E i, j \in 1..Len(techniques) :
                        i < j /\ techniques[i].technique_id = techniques[j].technique_id
        missing == \/ \E o \in objects("detection") : DetectionKeys \ o.keys # {}
                   \/ \E o \in objects("visibility") : VisibilityKeys \ o.keys # {}
        scores == {check_health_score_object(o, "detection") : o \in objects("detection")}
                  \cup {check_health_score_object(o, "visibility") :
                            o \in objects("visibility")}
        all_applicable_to ==
            UNION {IF "applicable_to" \in {"detection", "visibility"}
                   THEN SeqToSet(o.applicable_to) ELSE {} :
                        o \in objects("detection") \cup objects("visibility")}
        similar == {i1 \in all_applicable_to :
                        \E i2 \in all_applicable_to : VerySimilar(i1, i2)}
    IN  [raised |-> KeyError \in scores,
         similar |-> similar,
         has_error |-> duplicate \/ missing \/ "True" \in scores \/ similar # {}]

\* lines 878-965 and 1017-1026 on the state c of the file and its cache:
\* the state after the call, with the result of the call
check_file(c, health_is_called) ==
    LET modified == c.last_modified = None \/ c.last_modified # <<c.mtime>>
        v == ValidateTechniques(c.file)
        technique_file == c.file.file_type = FILE_TYPE_TECHNIQUE_ADMINISTRATION
        checked == modified \/ health_is_called
        raised == checked /\ technique_file /\ v.raised
        validated == checked /\ technique_file
    IN  [c EXCEPT
            !.op = "checked",
            !.last_modified = <<c.mtime>>,
            !.last_error_state = IF validated /\ ~raised THEN <<v.has_error>> ELSE @,
            !.result =
                [health_is_called |-> health_is_called,
                 modified |-> modified,
                 validated |-> validated,
                 raised |-> raised,
                 similar |-> IF validated /\ ~raised /\ health_is_called
                             THEN v.similar ELSE {},
                 reported |-> IF validated THEN ~raised /\ v.has_error
                              ELSE ~checked /\ c.last_error_state = <<TRUE>>,
                 returned |-> IF raised THEN None ELSE <<c.file.file_type>>]]

InitHealth ==
    /\ InitWith(NoScores, 0)
    /\ call \in {[op |-> "file", file |-> f, mtime |-> 0, last_modified |-> None,
                   last_error_state |-> None,
                   result |-> [validated |-> FALSE, similar |-> {}]] : f \in HealthFiles}

\* a call of check_file
CheckFile ==
    /\ call.op \in {"file", "checked", "written"}
    /\ \E health_is_called \in BOOLEAN : call' = check_file(call, health_is_called)
    /\ UNCHANGED <<store, backups, today, writes_left, pc, outcome,
                   new_visibility_scores, yaml_file_tech_admin, manually_scored,
                   auto_scored, mix_scores, updated_vis_score_cnt, answer, tech_update,
                   old_tech_idx, obj_idx, score_updates_handled, are_scores_updated,
                   prompts, at_start>>

\* the file is written, by its owner or by the write of
\* data_source_mapping.py 472-475: a content of the same type, a later
\* modification time
WriteFile ==
    /\ call.op \in {"file", "checked", "written"}
    /\ call.mtime < MaxMtime
    /\ \E f \in HealthFiles :
            /\ f.file_type = call.file.file_type
            /\ call' = [call EXCEPT !.op = "written", !.file = f, !.mtime = @ + 1]
    /\ UNCHANGED <<store, backups, today, writes_left, pc, outcome,
                   new_visibility_scores, yaml_file_tech_admin, manually_scored,
                   auto_scored, mix_scores, updated_vis_score_cnt, answer, tech_update,
                   old_tech_idx, obj_idx, score_updates_handled, are_scores_updated,
                   prompts, at_start>>

NextHealth == CheckFile \/ WriteFile

SpecHealth == InitHealth /\ [][NextHealth]_vars

(***************************************************************************)
(* data_source_mapping.py 139-151: the data quality score of a data source *)
(* in export_data_source_list_to_excel.  items is the list of the          *)
(* key-value pairs of ds['data_quality'] in the order of the file.  The    *)
(* quotient of line 151 is kept as [score, score_count]: the score is      *)
(* score / score_count.                                                    *)
(***************************************************************************)
\* mutant of ScoreLoop: a dimension of value zero is not counted
RECURSIVE ScoreLoop_SkipZero(_, _, _)
ScoreLoop_SkipZero(items, score, score_count) ==
    IF items = <<>> THEN [score |-> score, score_count |-> score_count]
    ELSE LET k == Head(items).k
             v == Head(items).v
             w == IF k \in {"device_completeness", "data_field_completeness", "retention"}
                  THEN 2 ELSE 1
         IN  ScoreLoop_SkipZero(Tail(items), score + v * w,
                                score_count + (IF v = 0 THEN 0 ELSE w))

\* lines 141-149
RECURSIVE ScoreLoop(_, _, _)
ScoreLoop(items, score, score_count) ==
    IF items = <<>> THEN [score |-> score, score_count |-> score_count]
    ELSE LET k == Head(items).k
             v == Head(items).v
         IN  IF k \in {"device_completeness", "data_field_completeness", "retention"}
             THEN ScoreLoop(Tail(items), score + v * 2, score_count + 2)
             ELSE ScoreLoop(Tail(items), score + v, score_count + 1)

\* lines 139-151: score stays the integer 0 when the sum is 0
DataQualityScore(items) ==
    LET sum == ScoreLoop(items, 0, 0)
    IN  IF sum.score > 0 THEN sum ELSE [score |-> 0, score_count |-> 1]

\* the five dimensions in every order, each of them 0, 1 or 5
InitQuality ==
    LET QualityKeys == {"device_completeness", "data_field_completeness",
                        "retention", "timeliness", "consistency"}
        QualityValues == {0, 1, 5}
    IN  /\ InitWith(NoScores, 0)
        /\ call \in {[op |-> "data_quality", items |-> [i \in DOMAIN order |->
                                        [k |-> order[i], v |-> dq[order[i]]]]] :
                        order \in {o \in [1..Cardinality(QualityKeys) -> QualityKeys] :
                                        \A i, j \in DOMAIN o : i # j => o[i] # o[j]},
                        dq \in [QualityKeys -> QualityValues]}

ComputeScore ==
    /\ call.op = "data_quality"
    /\ call' = [op |-> "dq_score", items |-> call.items,
                score |-> DataQualityScore(call.items)]
    /\ UNCHANGED <<store, backups, today, writes_left, pc, outcome,
                   new_visibility_scores, yaml_file_tech_admin, manually_scored,
                   auto_scored, mix_scores, updated_vis_score_cnt, answer, tech_update,
                   old_tech_idx, obj_idx, score_updates_handled, are_scores_updated,
                   prompts, at_start>>

NextQuality == ComputeScore

SpecQuality == InitQuality /\ [][NextQuality]_vars

(***************************************************************************)
(* generic.py 337-369 and data_source_mapping.py 544-553: the output file  *)
(* of write_file and of generate_technique_administration_file.  The files *)
(* that share the base name are numbered: 0 is the base name, k the name   *)
(* with the suffix _k; files maps the number of an existing file to its    *)
(* content.  log lists the calls made: the name chosen and the content.    *)
(***************************************************************************)
MaxOutputs == 3

\* mutant of FirstFreeSuffix: the first suffix tried is taken
FirstFreeSuffix_Untested(existing, suffix) == suffix

\* the loops of generic.py 364-365 and data_source_mapping.py 547-550
RECURSIVE FirstFreeSuffix(_, _)
FirstFreeSuffix(existing, suffix) ==
    IF suffix \in existing THEN FirstFreeSuffix(existing, suffix + 1) ELSE suffix

\* generic.py 362-369; lines 545-550 of generate_technique_administration_file
\* choose the same name
get_non_existing_filename(existing) ==
    IF 0 \in existing THEN FirstFreeSuffix(existing, 1) ELSE 0

InitOutput ==
    /\ InitWith(NoScores, 0)
    /\ call \in {[op |-> "output", files |-> [k \in existing |-> "old"],
                   at_first |-> existing, log |-> <<>>] :
                    existing \in SUBSET (0..(MaxOutputs - 1))}

\* one call of write_file or of generate_technique_administration_file
WriteOutput ==
    /\ call.op = "output"
    /\ Len(call.log) < MaxOutputs
    /\ \E content \in {"a", "b"} :
            LET output_filename == get_non_existing_filename(DOMAIN call.files)
            IN  call' = [call EXCEPT
                            !.files = [k \in DOMAIN call.files \cup {output_filename} |->
                                        IF k = output_filename THEN content
                                        ELSE call.files[k]],
                            !.log = Append(@, [output_filename |-> output_filename,
                                               content |-> content])]
    /\ UNCHANGED <<store, backups, today, writes_left, pc, outcome,
                   new_visibility_scores, yaml_file_tech_admin, manually_scored,
                   auto_scored, mix_scores, updated_vis_score_cnt, answer, tech_update,
                   old_tech_idx, obj_idx, score_updates_handled, are_scores_updated,
                   prompts, at_start>>

NextOutput == WriteOutput

SpecOutput == InitOutput /\ [][NextOutput]_vars

(***************************************************************************)
(* Calls of get_latest_score_obj on a score_logbook and on a reordering of *)
(* it: the logbooks have at most MaxLogLen entries, of days 1..MaxDate.    *)
(***************************************************************************)
MaxLogLen == 3
MaxDate == 3

LogEntries == {ScoreObj(d, FALSE, s, EmptyComment, TRUE) : d \in 1..MaxDate, s \in {1, 2}}

Logbooks == UNION {[1..n -> LogEntries] : n \in 0..MaxLogLen}

Reorderings(n) == {p \in [1..n -> 1..n] : \A i, j \in 1..n : p[i] = p[j] => i = j}

InitLatest ==
    /\ InitWith(NoScores, 0)
    /\ call \in {[op |-> "logbook", logbook |-> l] : l \in Logbooks}

\* get_latest_score_obj is called on the logbook and on the logbook reordered by p
GetLatest(p) ==
    /\ call.op = "logbook"
    /\ LET reordered == [i \in 1..Len(call.logbook) |-> call.logbook[p[i]]]
       IN  call' = [op |-> "get_latest_score_obj",
                    logbook |-> call.logbook,
                    reordered |-> reordered,
                    result |-> get_latest_score_obj([score_logbook |-> call.logbook]),
                    result_reordered |-> get_latest_score_obj([score_logbook |-> reordered])]
    /\ UNCHANGED <<store, backups, today, writes_left, pc, outcome,
                   new_visibility_scores, yaml_file_tech_admin, manually_scored,
                   auto_scored, mix_scores, updated_vis_score_cnt, answer, tech_update,
                   old_tech_idx, obj_idx, score_updates_handled, are_scores_updated,
                   prompts, at_start>>

NextLatest == \E p \in Reorderings(Len(call.logbook)) : GetLatest(p)

SpecLatest == InitLatest /\ [][NextLatest]_vars

(***************************************************************************)
(* Vocabulary of the properties.  A run is described by the state it       *)
(* leaves: at_start is the file before it, new_visibility_scores the       *)
(* derived set, answer the strategy, prompts the questions and replies.    *)
(***************************************************************************)
RunEnded == pc = "idle" /\ outcome # "none"

\* the run got past the platform check and loaded the file (line 297)
Loaded == yaml_file_tech_admin # NoScores

\* the scoped visibility records of the file as the run found it
OldRecords ==
    UNION {{<<i, j>> : j \in 1..Len(at_start.store.techniques[i].visibility)} :
            i \in 1..Len(at_start.store.techniques)}

OldTechId(r) == at_start.store.techniques[r[1]].technique_id
OldLogbook(r) == at_start.store.techniques[r[1]].visibility[r[2]].score_logbook
MemLogbook(r) == yaml_file_tech_admin.techniques[r[1]].visibility[r[2]].score_logbook
FileLogbook(r) == store.techniques[r[1]].visibility[r[2]].score_logbook

IsDerivedId(tid) == tid \in TechIdsOf(new_visibility_scores.techniques)

\* the score entry of the derived set for a technique
DerivedEntry(tid) ==
    (CHOOSE t \in SeqToSet(new_visibility_scores.techniques) :
        t.technique_id = tid).visibility.score_logbook[1]

\* the entry of a list with the greatest date, the first of them in list order
MaxDateEntries(logbook) ==
    {k \in 1..Len(logbook) : \A m \in 1..Len(logbook) : logbook[m].date <= logbook[k].date}

LatestScoreOf(logbook) ==
    logbook[CHOOSE k \in MaxDateEntries(logbook) :
                \A m \in MaxDateEntries(logbook) : k <= m].score

\* a candidate: a record of a technique of both sets whose latest score
\* differs from the derived score
IsCandidate(r) ==
    /\ IsDerivedId(OldTechId(r))
    /\ \/ OldLogbook(r) = <<>>
       \/ LatestScoreOf(OldLogbook(r)) # DerivedEntry(OldTechId(r)).score

Candidates == {r \in OldRecords : IsCandidate(r)}

\* the derived entry as it is read back from the written file: its date is a date
AsWritten(score_obj) == [score_obj EXCEPT !.date_is_str = FALSE]

ReviewsOf(r) ==
    {n \in 1..Len(prompts) :
        /\ prompts[n].kind = "review"
        /\ prompts[n].tech_id = OldTechId(r)
        /\ prompts[n].obj_idx = r[2] - 1}

BackupMade ==
    \E n \in DOMAIN backups \ DOMAIN at_start.backups : backups[n] = at_start.store

(***************************************************************************)
(* C1: when the platform of the derived set differs from the platform      *)
(* recorded in the technique administration file, the run has ended before *)
(* any comparison, prompt or in-memory addition, no backup file exists     *)
(* that did not exist before and the file is as it was.                    *)
(***************************************************************************)
C1_PlatformMismatchRefused ==
    (outcome # "none" /\ new_visibility_scores.platform # at_start.store.platform)
    => /\ pc = "idle"
       /\ store = at_start.store
       /\ backups = at_start.backups
       /\ prompts = <<>>
       /\ ~Loaded
       /\ updated_vis_score_cnt = 0
       /\ tech_update = <<>>

\* a run was refused for its platform although the derived set has techniques
C1_Witness ==
    /\ outcome = "refused"
    /\ new_visibility_scores.platform = "linux"
    /\ at_start.store.platform = "windows"
    /\ Len(new_visibility_scores.techniques) = 2

(***************************************************************************)
(* C2: the file is overwritten only after backup_file has copied its       *)
(* current content to a new backup in the same run: whenever the run is    *)
(* about to write, and whenever the file differs from what the run found,  *)
(* a backup made in this run holds the content the run found.              *)
(***************************************************************************)
C2_WriteOnlyAfterBackup ==
    /\ pc = "write" => (BackupMade /\ store = at_start.store)
    /\ store # at_start.store => BackupMade

\* the file was overwritten
C2_Witness ==
    /\ outcome = "written"
    /\ store # at_start.store
    /\ BackupMade

(***************************************************************************)
(* C4: a run that was not cancelled and changed the structure in memory    *)
(* (an insertion into a history, a new technique, or both) has, when it    *)
(* ends, made a backup of the file and written the whole updated structure *)
(* to it: the file has the techniques and records of the structure, every  *)
(* entry with its date, score and provenance, and every entry the run      *)
(* inserted or added is in the file as the derived entry.                  *)
(***************************************************************************)
ChangedInMemory == Loaded /\ yaml_file_tech_admin # at_start.store

FileHoldsStructure ==
    /\ store.platform = yaml_file_tech_admin.platform
    /\ Len(store.techniques) = Len(yaml_file_tech_admin.techniques)
    /\ \A i \in 1..Len(yaml_file_tech_admin.techniques) :
        LET mem == yaml_file_tech_admin.techniques[i]
            file == store.techniques[i]
        IN  /\ file.technique_id = mem.technique_id
            /\ Len(file.visibility) = Len(mem.visibility)
            /\ \A j \in 1..Len(mem.visibility) :
                LET ml == mem.visibility[j].score_logbook
                    fl == file.visibility[j].score_logbook
                IN  /\ Len(fl) = Len(ml)
                    /\ \A k \in 1..Len(ml) :
                        /\ fl[k].date = ml[k].date
                        /\ fl[k].score = ml[k].score
                        /\ fl[k].auto_generated = ml[k].auto_generated
                        /\ ml[k].date_is_str => fl[k] = AsWritten(ml[k])

C6_CancelWritesNothing ==
    answer = V_UPDATE_ANSWER_CANCEL
    => /\ pc = "idle"
       /\ store = at_start.store
       /\ backups = at_start.backups

\* cancel was chosen after a new technique had been appended in memory
C6_Witness ==
    /\ answer = V_UPDATE_ANSWER_CANCEL
    /\ outcome = "cancelled"
    /\ Len(yaml_file_tech_admin.techniques) > Len(at_start.store.techniques)

(***************************************************************************)
(* C9 (as stated): get_latest_score_obj returns the entry of the           *)
(* score_logbook with the maximum date, and for a reordering of the list   *)
(* the result is the same entry.                                           *)
(***************************************************************************)
Called == call.op = "get_latest_score_obj"

HasMaxDate(result, logbook) ==
    /\ result # None
    /\ \E k \in MaxDateEntries(logbook) : result[1] = logbook[k]

C9_SameEntryWhateverOrder ==
    (Called /\ call.logbook # <<>>)
    => /\ HasMaxDate(call.result, call.logbook)
       /\ call.result_reordered = call.result

(***************************************************************************)
(* C9 (amended): get_latest_score_obj returns None for an empty            *)
(* score_logbook and otherwise the first entry, in list order, of those    *)
(* that carry the maximum date; get_latest_date is that date whatever the  *)
(* order of the list, and the result is the same entry for every order     *)
(* when one entry only carries the maximum date.                           *)
(***************************************************************************)
FirstOfMaxDate(logbook) ==
    logbook[CHOOSE k \in MaxDateEntries(logbook) :
                \A m \in MaxDateEntries(logbook) : k <= m]

C9_LatestIsFirstOfMaxDate ==
    Called
    => IF call.logbook = <<>>
       THEN call.result = None /\ call.result_reordered = None
       ELSE /\ call.result = <<FirstOfMaxDate(call.logbook)>>
            /\ call.result_reordered = <<FirstOfMaxDate(call.reordered)>>
            /\ get_latest_date([score_logbook |-> call.reordered])
                    = get_latest_date([score_logbook |-> call.logbook])
            /\ get_latest_score([score_logbook |-> call.logbook])
                    = <<call.result[1].score>>
            /\ Cardinality(MaxDateEntries(call.logbook)) = 1
                    => call.result_reordered = call.result

\* a list in ascending date order was reversed, and the last entry of the
\* one, the first of the other, is the result for both
C9_Witness ==
    /\ Called
    /\ Len(call.logbook) = 3
    /\ call.logbook[1].date < call.logbook[2].date
    /\ call.logbook[2].date < call.logbook[3].date
    /\ call.reordered = <<call.logbook[3], call.logbook[2], call.logbook[1]>>
    /\ call.result = <<call.logbook[3]>>
    /\ call.result_reordered = call.result

(***************************************************************************)
(* C3: for every approved candidate the apply step inserts exactly one     *)
(* entry at index 0 of the record's score_logbook (the length grows by     *)
(* one, the prior entries keep content and order), and no step of a run    *)
(* removes, changes or reorders an entry that was in the file: the history *)
(* in memory is the old one or the derived entry followed by the old one,  *)
(* and the history in the file ends with the old one, entry for entry.     *)
(***************************************************************************)
EndsWith(logbook, old) ==
    /\ Len(logbook) >= Len(old)
    /\ \A k \in 1..Len(old) : logbook[Len(logbook) - Len(old) + k] = old[k]

\* the run ended normally: it was neither refused nor cancelled nor in error
RunCompleted == RunEnded /\ outcome \in {"written", "unchanged"}

C3_HistoryOnlyGrows ==
    \A r \in OldRecords :
        /\ Loaded =>
            \/ MemLogbook(r) = OldLogbook(r)
            \/ MemLogbook(r) = InsertHead(OldLogbook(r), DerivedEntry(OldTechId(r)))
        /\ (RunCompleted /\ answer = V_UPDATE_ANSWER_1 /\ IsCandidate(r))
            => Len(MemLogbook(r)) = Len(OldLogbook(r)) + 1
        /\ EndsWith(FileLogbook(r), OldLogbook(r))

(***************************************************************************)
(* C5: when the strategy is apply-all-automatically, every candidate has   *)
(* the derived entry at the head of its history when the run has ended,    *)
(* the history is one entry longer, and no yes/no question was put for a   *)
(* candidate.                                                              *)
(***************************************************************************)
C5_ApplyAllUpdatesEveryCandidate ==
    (RunCompleted /\ answer = V_UPDATE_ANSWER_1)
    => /\ \A r \in Candidates :
            /\ Len(FileLogbook(r)) = Len(OldLogbook(r)) + 1
            /\ FileLogbook(r)[1] = AsWritten(DerivedEntry(OldTechId(r)))
       /\ \A n \in 1..Len(prompts) : prompts[n].kind # "review"

(***************************************************************************)
(* C7: a record whose latest score equals the derived score of its         *)
(* technique is never a candidate and is never modified by a run, under    *)
(* any strategy: it has no action in tech_update, its history in memory    *)
(* and its history in the file stay what they were.                        *)
(***************************************************************************)
HasAction(r) ==
    /\ OldTechId(r) \in DOMAIN tech_update
    /\ (r[2] - 1) \in DOMAIN tech_update[OldTechId(r)]

AllApproved ==
    \/ answer = V_UPDATE_ANSWER_1
    \/ /\ answer = V_UPDATE_ANSWER_2
       /\ \A n \in 1..Len(prompts) : prompts[n].kind = "review" => prompts[n].yes

C8_SecondRunFindsNothing ==
    (RunCompleted /\ AllApproved)
    => LET file == load_techniques(store).my_techniques
           st == Classify(file, new_visibility_scores.techniques)
       IN  /\ ~st.manually_scored /\ ~st.auto_scored /\ ~st.mix_scores
           /\ st.updated_vis_score_cnt = 0
           /\ TechIdsNew(new_visibility_scores, file) = {}

(***************************************************************************)
(* C10: under the review-each strategy every candidate is presented to the *)
(* user exactly once, the derived entry is inserted at the head of the     *)
(* record's history if and only if the reply is yes, and a no leaves the   *)
(* history unchanged.                                                      *)
(***************************************************************************)
C10_ReviewEachAsksEveryCandidateOnce ==
    (RunCompleted /\ answer = V_UPDATE_ANSWER_2)
    => \A r \in Candidates :
        /\ Cardinality(ReviewsOf(r)) = 1
        /\ \A n \in ReviewsOf(r) :
            IF prompts[n].yes
            THEN /\ Len(FileLogbook(r)) = Len(OldLogbook(r)) + 1
                 /\ FileLogbook(r)[1] = AsWritten(DerivedEntry(OldTechId(r)))
            ELSE FileLogbook(r) = OldLogbook(r)

(***************************************************************************)
(* C11: under the strategy for mixed scores that updates the               *)
(* auto-generated scores only (V_UPDATE_ANSWER_3), when the run has ended  *)
(* every candidate whose latest entry is auto-generated has the derived    *)
(* entry at the head of its history, one entry longer, every candidate     *)
(* whose latest entry is manual has the history it had, in memory and in   *)
(* the file, and no yes/no question was put for any candidate.             *)
(***************************************************************************)
LatestAuto(r) == FirstOfMaxDate(OldLogbook(r)).auto_generated

Inserted(r) ==
    /\ Len(FileLogbook(r)) = Len(OldLogbook(r)) + 1
    /\ FileLogbook(r)[1] = AsWritten(DerivedEntry(OldTechId(r)))

C11_AutoOnlyUpdatesAutoCandidates ==
    (RunCompleted /\ answer = V_UPDATE_ANSWER_3)
    => \A r \in Candidates :
        /\ ReviewsOf(r) = {}
        /\ IF LatestAuto(r)
           THEN Inserted(r)
           ELSE /\ MemLogbook(r) = OldLogbook(r)
                /\ FileLogbook(r) = OldLogbook(r)

(***************************************************************************)
(* C12: under the strategy for mixed scores that updates the               *)
(* auto-generated scores automatically and reviews the manual ones         *)
(* (V_UPDATE_ANSWER_4), when the run has ended every candidate whose       *)
(* latest entry is auto-generated has the derived entry at the head of its *)
(* history and no question was put for it, and for every candidate whose   *)
(* latest entry is manual the question was put once and the derived entry  *)
(* was inserted if and only if the reply was yes.                          *)
(***************************************************************************)
C12_SplitUpdatesAutoReviewsManual ==
    (RunCompleted /\ answer = V_UPDATE_ANSWER_4)
    => \A r \in Candidates :
        IF LatestAuto(r)
        THEN ReviewsOf(r) = {} /\ Inserted(r)
        ELSE /\ Cardinality(ReviewsOf(r)) = 1
             /\ \A n \in ReviewsOf(r) :
                    IF prompts[n].yes
                    THEN Inserted(r)
                    ELSE MemLogbook(r) = OldLogbook(r)

(***************************************************************************)
(* C13: the strategy menu is shown at most once in a run, and only when a  *)
(* candidate exists.  After the classification exactly the following       *)
(* holds: manually_scored iff there are candidates and the latest entry of *)
(* every one is not auto-generated, auto_scored iff there are candidates   *)
(* and the latest entry of every one is auto-generated, mix_scores iff     *)
(* there is a candidate of each kind; at most one flag is true; the menu   *)
(* has 5 answers when mixed and 3 otherwise; and the one answer sets the   *)
(* action of every candidate in tech_update, of no other record.           *)
(***************************************************************************)
ManualCandidates == {r \in Candidates : ~LatestAuto(r)}

AutoCandidates == {r \in Candidates : LatestAuto(r)}

MenuPrompts == {n \in 1..Len(prompts) : prompts[n].kind = "menu"}

Flags == {f \in {"manual", "auto", "mix"} :
            \/ f = "manual" /\ manually_scored
            \/ f = "auto" /\ auto_scored
            \/ f = "mix" /\ mix_scores}

\* the action the answer stands for, for a candidate: None when the answer
\* leaves the candidate alone
AnswerFor(r) ==
    CASE answer = V_UPDATE_ANSWER_1 -> <<V_UPDATE_ACTION_AUTO>>
      [] answer = V_UPDATE_ANSWER_2 -> <<V_UPDATE_ACTION_DIFF>>
      [] answer = V_UPDATE_ANSWER_3 ->
            IF LatestAuto(r) THEN <<V_UPDATE_ACTION_AUTO>> ELSE None
      [] answer = V_UPDATE_ANSWER_4 ->
            IF LatestAuto(r) THEN <<V_UPDATE_ACTION_AUTO>> ELSE <<V_UPDATE_ACTION_DIFF>>
      [] OTHER -> None

ActionOf(r) ==
    IF HasAction(r) THEN <<tech_update[OldTechId(r)][r[2] - 1].action>> ELSE None

C13_MenuOnceAndClassification ==
    /\ Cardinality(MenuPrompts) <= 1
    /\ Cardinality(Flags) <= 1
    /\ ~Loaded => (Flags = {} /\ MenuPrompts = {} /\ pc # "menu")
    /\ Loaded =>
        /\ manually_scored <=> (Candidates # {} /\ AutoCandidates = {})
        /\ auto_scored <=> (Candidates # {} /\ ManualCandidates = {})
        /\ mix_scores <=> (AutoCandidates # {} /\ ManualCandidates # {})
        /\ (pc = "menu" \/ MenuPrompts # {}) <=> Candidates # {}
        /\ pc = "menu" <=> (Candidates # {} /\ MenuPrompts = {})
        /\ Len(MenuAnswers(manually_scored, auto_scored, mix_scores))
                = (IF Candidates = {} THEN 0 ELSE IF mix_scores THEN 5 ELSE 3)
        /\ MenuPrompts # {} =>
                answer \in SeqToSet(MenuAnswers(manually_scored, auto_scored, mix_scores))
        /\ (MenuPrompts # {} /\ answer # V_UPDATE_ANSWER_CANCEL) =>
                \A r \in OldRecords :
                    ActionOf(r) = (IF r \in Candidates THEN AnswerFor(r) ELSE None)

\* a run with a manual and an auto-generated candidate was classified as
\* mixed and the answer of the 5-answer menu set a review and an update
C13_Witness ==
    /\ mix_scores
    /\ answer = V_UPDATE_ANSWER_4
    /\ \E r \in ManualCandidates : ActionOf(r) = <<V_UPDATE_ACTION_DIFF>>
    /\ \E r \in AutoCandidates : ActionOf(r) = <<V_UPDATE_ACTION_AUTO>>
    /\ Cardinality(MenuPrompts) = 1

(***************************************************************************)
(* C14: once the structure is loaded and the new techniques are added, the *)
(* technique list is the list of the file followed by one new record for   *)
(* every technique ID of the derived set that the file does not have, each *)
(* exactly once; every new record holds one visibility object with the     *)
(* derived entry, whose comment is the reply to the one comment question   *)
(* (empty when declined); no technique of the file is appended, and no     *)
(* technique ID occurs twice.  The written file has the same techniques.   *)
(***************************************************************************)
NewIds ==
    TechIdsOf(new_visibility_scores.techniques) \ TechIdsOf(at_start.store.techniques)

CommentPrompts == {n \in 1..Len(prompts) : prompts[n].kind = "comment"}

\* the comment of the run: the text typed when the question was answered yes
CommentGiven ==
    IF \E n \in CommentPrompts : prompts[n].yes THEN PromptComment ELSE EmptyComment

NoDuplicateIds(techniques) ==
    \A i, j \in 1..Len(techniques) :
        techniques[i].technique_id = techniques[j].technique_id => i = j

C14_NewTechniquesAppendedOnce ==
    Loaded =>
        LET mem == yaml_file_tech_admin.techniques
            old == at_start.store.techniques
        IN  /\ Len(mem) = Len(old) + Cardinality(NewIds)
            /\ \A i \in 1..Len(old) : mem[i].technique_id = old[i].technique_id
            /\ {mem[i].technique_id : i \in (Len(old) + 1)..Len(mem)} = NewIds
            /\ NoDuplicateIds(mem)
            /\ \A i \in (Len(old) + 1)..Len(mem) :
                /\ mem[i].visibility =
                        <<[score_logbook |-> <<DerivedEntry(mem[i].technique_id)>>]>>
                /\ mem[i].visibility[1].score_logbook[1].comment = CommentGiven
            /\ Cardinality(CommentPrompts) = (IF NewIds = {} THEN 0 ELSE 1)
            /\ outcome = "written" =>
                    /\ Len(store.techniques) = Len(mem)
                    /\ \A i \in 1..Len(mem) :
                            store.techniques[i].technique_id = mem[i].technique_id

\* two techniques were new and were appended with the comment typed, while
\* a technique of both sets was not
C14_Witness ==
    /\ Loaded
    /\ NewIds = {"T2", "T3"}
    /\ "T1" \in TechIdsOf(new_visibility_scores.techniques)
    /\ Len(yaml_file_tech_admin.techniques) = 3
    /\ CommentGiven = PromptComment
    /\ \A i \in 2..3 :
            yaml_file_tech_admin.techniques[i].visibility[1].score_logbook[1].comment
                = PromptComment
    /\ outcome = "written"

(***************************************************************************)
(* C15: a run that has made no insertion and no addition (the structure in *)
(* memory is the one the run loaded, or none was loaded) has made no       *)
(* backup file, does not stand before the backup or the write, and the     *)
(* file is as the run found it.                                            *)
(***************************************************************************)
C15_NoChangeNoBackupNoWrite ==
    ~ChangedInMemory
    => /\ pc \notin {"backup", "write"}
       /\ backups = at_start.backups
       /\ store = at_start.store

\* a run whose every candidate was reviewed and declined has ended
C15_Witness ==
    /\ RunEnded
    /\ outcome = "unchanged"
    /\ Loaded
    /\ ~ChangedInMemory
    /\ Candidates # {}
    /\ \A r \in Candidates : \E n \in ReviewsOf(r) : ~prompts[n].yes
    /\ backups = <<>>

(***************************************************************************)
(* C16: every scoped visibility record is a merge unit of its own.  A      *)
(* record has an action only if its own latest score differs from the one  *)
(* derived score of its technique, and the action carries that derived     *)
(* entry.  In the structure in memory the history of a record differs from *)
(* the one the run loaded only if the record is an approved candidate (its *)
(* action is the automatic update, or its review was answered yes), and    *)
(* then it is the derived entry followed by the old history: an insertion  *)
(* into one record leaves every other record of the technique and of the   *)
(* other techniques as it was.  In the file, no entry is added to a record *)
(* that is not an approved candidate.                                      *)
(***************************************************************************)
Approved(r) ==
    /\ r \in Candidates
    /\ \/ ActionOf(r) = <<V_UPDATE_ACTION_AUTO>>
       \/ \E n \in ReviewsOf(r) : prompts[n].yes

SameEntries(logbook, old) ==
    /\ Len(logbook) = Len(old)
    /\ \A k \in 1..Len(old) :
        /\ logbook[k].date = old[k].date
        /\ logbook[k].score = old[k].score
        /\ logbook[k].auto_generated = old[k].auto_generated

C16_RecordsAreIndependentUnits ==
    \A r \in OldRecords :
        /\ HasAction(r) =>
            /\ LatestScoreOf(OldLogbook(r)) # DerivedEntry(OldTechId(r)).score
            /\ tech_update[OldTechId(r)][r[2] - 1].score_obj = DerivedEntry(OldTechId(r))
        /\ Loaded =>
            IF MemLogbook(r) # OldLogbook(r)
            THEN /\ Approved(r)
                 /\ MemLogbook(r) = InsertHead(OldLogbook(r), DerivedEntry(OldTechId(r)))
            ELSE TRUE
        /\ ~Approved(r) =>
            /\ Loaded => MemLogbook(r) = OldLogbook(r)
            /\ SameEntries(FileLogbook(r), OldLogbook(r))

\* of two candidates of one technique one was approved and one declined,
\* the one has the derived entry and the other its old history, and a record
\* of another technique is as it was
C16_Witness ==
    /\ RunEnded
    /\ outcome = "written"
    /\ \E r1, r2 \in Candidates :
        /\ r1[1] = r2[1]
        /\ Approved(r1)
        /\ ~Approved(r2)
        /\ Len(MemLogbook(r1)) = Len(OldLogbook(r1)) + 1
        /\ MemLogbook(r2) = OldLogbook(r2)
    /\ \E r3 \in OldRecords \ Candidates : MemLogbook(r3) = OldLogbook(r3) /\ r3[1] = 2

(***************************************************************************)
(* C17: over a sequence of runs on the same file, no step removes or       *)
(* changes a backup file, a backup file is created under a name that did   *)
(* not exist, and when a step overwrites the file the content it replaces  *)
(* is held by a backup file; so every content that was ever overwritten is *)
(* held by a backup file in every later state.                             *)
(***************************************************************************)
C17_OverwrittenContentStaysBackedUp ==
    [][/\ \A n \in DOMAIN backups :
            n \in DOMAIN backups' /\ backups'[n] = backups[n]
       /\ backups' # backups =>
            \E n \in DOMAIN backups' \ DOMAIN backups :
                /\ DOMAIN backups' = DOMAIN backups \cup {n}
                /\ backups'[n] = store
       /\ store' # store =>
            \E n \in DOMAIN backups' : backups'[n] = store]_vars

\* two runs have written the file: both contents they replaced are in
\* backup files of their own
C17_Witness ==
    /\ DOMAIN backups = {1, 2}
    /\ backups[1] # backups[2]
    /\ store # backups[1]
    /\ store # backups[2]
    /\ outcome = "written"
    /\ writes_left = MaxWrites - 2

(***************************************************************************)
(* C18: with p = 100 * ds_count / total_ds_count the visibility score is   *)
(* one of 0..4 for every p: 0 exactly for p = 0, 1 exactly for             *)
(* 0 < p <= 49, 2 exactly for 49 < p <= 74, 3 exactly for 74 < p <= 99,    *)
(* and 4 for p = 100 (and for no p <= 99); the score does not decrease     *)
(* when p grows; 2 of 3 required data sources give 2.  The comparisons of  *)
(* p are written without the division.                                     *)
(***************************************************************************)
Scored == call.op = "scored"

C18_ScoreIsMonotoneStepFunction ==
    Scored =>
        LET d == call.ds_count
            t == call.total_ds_count
        IN  /\ call.score \in 0..4
            /\ call.score = 0 <=> d = 0
            /\ call.score = 1 <=> (0 < d /\ 100 * d <= 49 * t)
            /\ call.score = 2 <=> (49 * t < 100 * d /\ 100 * d <= 74 * t)
            /\ call.score = 3 <=> (74 * t < 100 * d /\ 100 * d <= 99 * t)
            /\ call.score = 4 <=> 99 * t < 100 * d
            /\ d = t => call.score = 4
            /\ (d = 2 /\ t = 3) => call.score = 2
            /\ \A t2 \in {t, MaxRequired} : \A d2 \in 0..t2 :
                    d * t2 <= d2 * t => call.score <= VisibilityScore(d2, t2)

\* 49 of 100 required data sources are owned: p is on the bound of score 1
C18_Witness ==
    /\ Scored
    /\ 100 * call.ds_count = 49 * call.total_ds_count
    /\ call.ds_count > 0
    /\ call.score = 1

(***************************************************************************)
(* C19: with p = 100 * ds_count / total_ds_count the colour of a technique *)
(* is exactly one of the five of the legend: the first for p <= 25, the    *)
(* second for 25 < p <= 50, the third for 50 < p <= 75, the fourth for     *)
(* 75 < p <= 99 and the fifth for p > 99; so p = 25 has the first and      *)
(* p = 26, 49 and 50 have the second.                                      *)
(***************************************************************************)
TierOf(color) == CHOOSE i \in 1..Len(LegendItems) : LegendItems[i] = color

C19_ColourTiersClosedAbove ==
    Scored =>
        LET d == call.ds_count
            t == call.total_ds_count
        IN  /\ \E i \in 1..Len(LegendItems) : LegendItems[i] = call.color
            /\ TierOf(call.color) = 1 <=> 100 * d <= 25 * t
            /\ TierOf(call.color) = 2 <=> (25 * t < 100 * d /\ 100 * d <= 50 * t)
            /\ TierOf(call.color) = 3 <=> (50 * t < 100 * d /\ 100 * d <= 75 * t)
            /\ TierOf(call.color) = 4 <=> (75 * t < 100 * d /\ 100 * d <= 99 * t)
            /\ TierOf(call.color) = 5 <=> 99 * t < 100 * d
            /\ 100 * d = 25 * t => TierOf(call.color) = 1
            /\ (100 * d = 26 * t \/ 100 * d = 49 * t \/ 100 * d = 50 * t)
                    => TierOf(call.color) = 2

\* 1 of 4 required data sources is owned: p = 25 is in the first tier
C19_Witness ==
    /\ Scored
    /\ call.ds_count = 1
    /\ call.total_ds_count = 4
    /\ call.color = COLOR_DS_25p

(***************************************************************************)
(* C20: a technique of ATT&CK that has no list of required data sources,   *)
(* or an empty one, is in no object of the layer that                      *)
(* _map_and_colorize_techniques returns and is no technique of the set     *)
(* that generate_technique_administration_file derives, whatever the data  *)
(* sources, the platform and the exceptions of the administration.         *)
(***************************************************************************)
Generated == call.op = "generated"

WithoutDataSources ==
    {AttackTechniques[i].technique_id : i \in
        {j \in 1..Len(AttackTechniques) :
            \/ ~AttackTechniques[j].has_data_sources
            \/ AttackTechniques[j].x_mitre_data_sources = <<>>}}

LayerIds == {call.layer[i].techniqueID : i \in 1..Len(call.layer)}

DerivedIds == {call.derived[i].technique_id : i \in 1..Len(call.derived)}

C20_NoDataSourcesNoLayerNoDerived ==
    Generated =>
        /\ LayerIds \cap WithoutDataSources = {}
        /\ DerivedIds \cap WithoutDataSources = {}

\* every data source is owned and the platform is the one of T4 and T5:
\* the other techniques are in the layer and in the derived set
C20_Witness ==
    /\ Generated
    /\ SeqToSet(call.my_ds) = DataSourceNames
    /\ call.platform = "windows"
    /\ call.exceptions = <<>>
    /\ WithoutDataSources = {"T4", "T5"}
    /\ LayerIds = {"T1", "T2", "T3"}
    /\ DerivedIds = {"T1", "T2", "T3"}

(***************************************************************************)
(* C21: a technique whose ID is in the exceptions of the data source       *)
(* administration, in whatever case the ID is written there, is in no      *)
(* object of the layer and is no technique of the derived set.             *)
(***************************************************************************)
C21_ExceptionsInNeitherOutput ==
    Generated =>
        LET ExceptedIds == {Upper(call.exceptions[i]) : i \in 1..Len(call.exceptions)}
        IN  /\ LayerIds \cap ExceptedIds = {}
            /\ DerivedIds \cap ExceptedIds = {}

(***************************************************************************)
(* C22: for a document that has every required key, _load_data_sources     *)
(* with filter_empty_scores on returns a data source name in the registry  *)
(* exactly when the document lists a data source of that name whose        *)
(* device_completeness, data_field_completeness, timeliness and            *)
(* consistency are all above zero, whatever its retention, and every       *)
(* object of the registry is such a data source; with the filter off the   *)
(* registry holds exactly the names listed.  The number of data sources a  *)
(* technique is counted to own is the number of its required data sources  *)
(* that some listed data source passing the filter carries.                *)
(***************************************************************************)
C22_FilterOnFourDimensions ==
    (call.op = "returned" /\ call.result # None) =>
        LET listed == SeqToSet(call.yaml_content.data_sources)
            passing == {d \in listed :
                            /\ d.data_quality.device_completeness > 0
                            /\ d.data_quality.data_field_completeness > 0
                            /\ d.data_quality.timeliness > 0
                            /\ d.data_quality.consistency > 0}
            registry == SeqToSet(call.result[1])
            names(S) == {d.data_source_name : d \in S}
        IN  IF call.filter_empty_scores
            THEN /\ names(registry) = names(passing)
                 /\ registry \subseteq passing
                 /\ \A i \in 1..Len(AttackTechniques) :
                        CountIn(AttackTechniques[i].x_mitre_data_sources, names(registry))
                        = Cardinality(SeqToSet(AttackTechniques[i].x_mitre_data_sources)
                                      \cap names(passing))
            ELSE /\ names(registry) = names(listed)
                 /\ registry \subseteq listed

\* the filter is on; 'proc' is listed with retention 0 and is returned,
\* 'file' is listed with timeliness 0 and is not
C22_Witness ==
    /\ call.op = "returned"
    /\ call.result # None
    /\ call.filter_empty_scores
    /\ call.yaml_content.data_sources =
            <<[has_name |-> TRUE, data_source_name |-> "proc", has_data_quality |-> TRUE,
               data_quality |-> DataQuality(1, 2, 1, 1, 0)],
              [has_name |-> TRUE, data_source_name |-> "file", has_data_quality |-> TRUE,
               data_quality |-> DataQuality(1, 2, 0, 1, 1)]>>
    /\ {d.data_source_name : d \in SeqToSet(call.result[1])} = {"proc"}

(***************************************************************************)
(* C23: when the document lacks one of the keys data_sources, name,        *)
(* platform, exceptions, or one of its data sources lacks data_quality or  *)
(* data_source_name, _load_data_sources prints the parsed content and      *)
(* returns None, and the caller ends without an error and without output.  *)
(***************************************************************************)
C23_MissingKeyIsReportedNotRaised ==
    LET yaml_content == call.yaml_content
        lacks_key ==
            \/ yaml_content.keys # TopLevelKeys
            \/ \E d \in SeqToSet(yaml_content.data_sources) :
                    ~d.has_data_quality \/ ~d.has_name
    IN  (call.op \in {"returned", "TypeError", "output"} /\ lacks_key) =>
            /\ call.result = None
            /\ call.printed
            /\ call.op \notin {"TypeError", "output"}

(***************************************************************************)
(* C24: check_file returns the file type of every valid YAML file of the   *)
(* expected type, whatever the health check finds in it, and the check     *)
(* leaves the file as it is (its content and its modification time).       *)
(***************************************************************************)
C24_HealthCheckIsAdvisory ==
    [][(call.op \in {"file", "checked", "written"} /\ call'.op = "checked") =>
            /\ call'.result.returned = <<call.file.file_type>>
            /\ call'.file = call.file
            /\ call'.mtime = call.mtime]_vars

(***************************************************************************)
(* C25: a check with health_is_called false validates the file only when   *)
(* no modification time is cached or the cached one differs from the       *)
(* file's, and a check that validates leaves the file's time and the error *)
(* state of the file in the cache; a check that follows a check with no    *)
(* write in between does not validate and reports exactly the cached error *)
(* state; the check that follows a write of a technique administration     *)
(* file validates.                                                         *)
(***************************************************************************)
C25_ValidationCachedByModificationTime ==
    [][(call.op \in {"file", "checked", "written"} /\ call'.op = "checked"
            /\ ~call'.result.health_is_called) =>
            LET result == call'.result
            IN  /\ result.validated =>
                        /\ call.last_modified = None \/ call.last_modified # <<call.mtime>>
                        /\ call'.last_modified = <<call.mtime>>
                        /\ call'.last_error_state =
                                <<ValidateTechniques(call.file).has_error>>
                /\ call.op = "checked" =>
                        /\ ~result.validated
                        /\ result.reported = (call.last_error_state = <<TRUE>>)
                        /\ call'.last_error_state = call.last_error_state
                /\ (call.op = "written"
                        /\ call.file.file_type = FILE_TYPE_TECHNIQUE_ADMINISTRATION) =>
                        result.validated]_vars

(***************************************************************************)
(* C26: when two different applicable_to labels of the detection and       *)
(* visibility objects of a file are very similar (ratio above 0.8 and      *)
(* below 1), a check that validates the file stores the error state True   *)
(* for it and, when health_is_called, prints both labels.                  *)
(***************************************************************************)
C26_SimilarLabelsAreAnError ==
    (call.op = "checked" /\ call.result.validated) =>
        LET techniques == call.file.techniques
            labels == UNION {SeqToSet(techniques[i].detection[1].applicable_to)
                             \cup SeqToSet(techniques[i].visibility[1].applicable_to) :
                                i \in 1..Len(techniques)}
        IN  \A i1, i2 \in labels :
                (i1 # i2 /\ VerySimilar(i1, i2)) =>
                    /\ call.last_error_state = <<TRUE>>
                    /\ call.result.health_is_called =>
                            {i1, i2} \subseteq call.result.similar

(***************************************************************************)
(* C27: for a data source that has the five dimensions, in whatever order  *)
(* they are listed, the data quality score is (2 x device_completeness +   *)
(* 2 x data_field_completeness + 2 x retention + timeliness + consistency) *)
(* / 8, a dimension of value zero counting in the 8; it is at least 0 and, *)
(* when no dimension is above 5, at most 5.                                *)
(***************************************************************************)
C27_WeightedScoreOverEight ==
    call.op = "dq_score" =>
        LET keys == {call.items[i].k : i \in DOMAIN call.items}
            v(k) == call.items[CHOOSE i \in DOMAIN call.items : call.items[i].k = k].v
            weighted == 2 * v("device_completeness") + 2 * v("data_field_completeness")
                        + 2 * v("retention") + v("timeliness") + v("consistency")
            score == call.score.score
            score_count == call.score.score_count
        IN  /\ Cardinality(keys) = Len(call.items)
            /\ score_count > 0
            /\ 8 * score = weighted * score_count
            /\ score >= 0
            /\ (\A k \in keys : v(k) <= 5) => score <= 5 * score_count

\* retention is listed first and is 0, the other dimensions are 5: the
\* score is 30 / 8
C27_Witness ==
    /\ call.op = "dq_score"
    /\ call.items[1] = [k |-> "retention", v |-> 0]
    /\ \A i \in DOMAIN call.items : i > 1 => call.items[i].v = 5
    /\ call.score = [score |-> 30, score_count |-> 8]

(***************************************************************************)
(* C30: no call of write_file or of generate_technique_administration_file *)
(* overwrites a file: after any number of calls every file that existed at *)
(* first has its content, every call has a file of its own that holds the  *)
(* content of that call, and when no file existed at first the n-th call   *)
(* wrote the base name for n = 1 and the suffix _(n-1) otherwise.          *)
(***************************************************************************)
C30_OutputNeverOverwrites ==
    call.op = "output" =>
        /\ \A k \in call.at_first : k \in DOMAIN call.files /\ call.files[k] = "old"
        /\ \A i \in DOMAIN call.log :
                /\ call.log[i].output_filename \notin call.at_first
                /\ call.log[i].output_filename \in DOMAIN call.files
                /\ call.files[call.log[i].output_filename] = call.log[i].content
                /\ \A j \in DOMAIN call.log :
                        i # j => call.log[i].output_filename # call.log[j].output_filename
                /\ call.at_first = {} => call.log[i].output_filename = i - 1

\* three calls in a directory without the file: three files, the second
\* and the third with other content than the first
C30_Witness ==
    /\ call.op = "output"
    /\ call.at_first = {}
    /\ Len(call.log) = 3
    /\ DOMAIN call.files = {0, 1, 2}
    /\ call.files[0] = "a"
    /\ call.files[1] = "b"
    /\ call.files[2] = "b"

(***************************************************************************)
(* C28: for every technique of the layer that _map_and_colorize_techniques *)
(* returns, the layer holds as many objects as the technique has tactics,  *)
(* one for each tactic, and these objects have the same techniqueID, the   *)
(* same colour and the same lists of available and of required data        *)
(* sources; a technique of three tactics has three objects.                *)
(***************************************************************************)
C28_OneObjectPerTactic ==
    Generated =>
        \A n \in 1..Len(AttackTechniques) :
            LET t == AttackTechniques[n]
                objects == {i \in 1..Len(call.layer) :
                                call.layer[i].techniqueID = t.technique_id}
            IN  objects # {} =>
                    /\ Cardinality(objects) = Len(t.kill_chain_phases)
                    /\ {call.layer[i].tactic : i \in objects}
                        = {TacticName(t.kill_chain_phases[k]) :
                                k \in 1..Len(t.kill_chain_phases)}
                    /\ \A i, j \in objects :
                            /\ call.layer[i].color = call.layer[j].color
                            /\ call.layer[i].available_data_sources
                               = call.layer[j].available_data_sources
                            /\ call.layer[i].attack_data_sources
                               = call.layer[j].attack_data_sources
                    /\ call.layer[CHOOSE i \in objects : TRUE].attack_data_sources
                       = t.x_mitre_data_sources

\* T1 has three tactics and is in the layer with two of its data sources
C28_Witness ==
    /\ Generated
    /\ call.my_ds = <<"file", "proc">>
    /\ Len(AttackTechniques[1].kill_chain_phases) = 3
    /\ Cardinality({i \in 1..Len(call.layer) :
                        /\ call.layer[i].techniqueID = AttackTechniques[1].technique_id
                        /\ call.layer[i].available_data_sources = <<"file", "proc">>}) = 3

(***************************************************************************)
(* C29: what fix_date_and_remove_null returns for the write of a run has   *)
(* the techniques, the visibility objects and the entries of the document  *)
(* in memory, in their order, and an entry differs from the one in memory  *)
(* at most by its date, written without quotes when it is the run date:    *)
(* the text of every comment is returned as it is.                         *)
(***************************************************************************)
C29_FixUpLeavesOtherLinesAlone ==
    [][pc = "write" =>
            LET old == yaml_file_tech_admin.techniques
                new == store'.techniques
            IN  /\ Len(new) = Len(old)
                /\ \A i \in 1..Len(old) :
                        /\ new[i].technique_id = old[i].technique_id
                        /\ Len(new[i].visibility) = Len(old[i].visibility)
                        /\ \A j \in 1..Len(old[i].visibility) :
                                LET old_logbook == old[i].visibility[j].score_logbook
                                    new_logbook == new[i].visibility[j].score_logbook
                                IN  /\ Len(new_logbook) = Len(old_logbook)
                                    /\ \A k \in 1..Len(old_logbook) :
                                            new_logbook[k] =
                                                [old_logbook[k] EXCEPT !.date_is_str =
                                                    IF old_logbook[k].date = today
                                                    THEN FALSE ELSE @]]_vars

(***************************************************************************)
(* C32: every technique of the set generate_technique_administration_file  *)
(* derives has a visibility score of 1 to 4 (so at least one of its data   *)
(* sources is owned), is a technique of the platform of the data source    *)
(* administration, is not in its exceptions, and has a score_logbook of    *)
(* exactly one entry, dated today.                                         *)
(***************************************************************************)
C32_DerivedSetIsScoredScopedAndDated ==
    Generated =>
        \A n \in 1..Len(call.derived) :
            LET tech == call.derived[n]
                t == AttackTechniques[CHOOSE i \in 1..Len(AttackTechniques) :
                        AttackTechniques[i].technique_id = tech.technique_id]
                score_logbook == tech.visibility.score_logbook
            IN  /\ tech.technique_id \in TechIdsOf(AttackTechniques)
                /\ Len(score_logbook) = 1
                /\ score_logbook[1].score \in 1..4
                /\ score_logbook[1].date = Today
                /\ CountIn(t.x_mitre_data_sources, SeqToSet(call.my_ds)) > 0
                /\ \E i \in 1..Len(t.x_mitre_platforms) :
                        Lower(t.x_mitre_platforms[i]) = call.platform
                /\ \A i \in 1..Len(call.exceptions) :
                        tech.technique_id \notin {call.exceptions[i], Upper(call.exceptions[i])}
                /\ \A m \in 1..Len(call.derived) :
                        call.derived[m].technique_id = tech.technique_id => m = n

\* platform linux, 'net' is owned: T1 and T2 are derived with score 1, the
\* Windows technique T3 (score 4) and the empty T4 and T5 are not
C32_Witness ==
    /\ Generated
    /\ call.platform = "linux"
    /\ call.my_ds = <<"net">>
    /\ call.exceptions = <<>>
    /\ DerivedIds = {"T1", "T2"}
    /\ \A n \in 1..Len(call.derived) :
            call.derived[n].visibility.score_logbook[1].score = 1

(***************************************************************************)
(* C33: immediately after an approved insertion, on the structure held in  *)
(* memory, get_latest_score of the record returns the derived score,       *)
(* get_latest_auto_generated the provenance of the inserted entry, and the *)
(* scan for the maximum date resolves to the inserted head entry, also     *)
(* when an older entry carries the same date.                              *)
(***************************************************************************)
C33_InsertedHeadIsLatest ==
    \A r \in OldRecords :
        LET new_score_obj == DerivedEntry(OldTechId(r))
            yaml_object == [score_logbook |-> MemLogbook(r)]
        IN  (/\ Loaded
             /\ IsDerivedId(OldTechId(r))
             /\ MemLogbook(r) = InsertHead(OldLogbook(r), new_score_obj))
            => /\ get_latest_score_obj(yaml_object) = <<MemLogbook(r)[1]>>
               /\ get_latest_score(yaml_object) = <<new_score_obj.score>>
               /\ get_latest_auto_generated(yaml_object) = new_score_obj.auto_generated

(***************************************************************************)
(* C34: the number announced as 'visibility scores eligible for an update' *)
(* is the number of candidates, whether their latest scores are all        *)
(* manual, all auto-generated or mixed; the apply step of a strategy that  *)
(* acts on every candidate handles as many; so the 'updates remaining'     *)
(* shown with a question is always at least 1, and it is 1 at the last     *)
(* candidate of a run that reviews each.                                   *)
(***************************************************************************)
C34_AnnouncedCountIsHandledCount ==
    /\ pc = "menu" => updated_vis_score_cnt = Cardinality(Candidates)
    /\ \A n \in 1..Len(prompts) :
            prompts[n].kind = "review" => prompts[n].remaining >= 1
    /\ (RunCompleted /\ answer \in {V_UPDATE_ANSWER_1, V_UPDATE_ANSWER_2, V_UPDATE_ANSWER_4})
        => /\ score_updates_handled = updated_vis_score_cnt
           /\ (answer = V_UPDATE_ANSWER_2 /\ Candidates # {})
               => /\ prompts # <<>>
                  /\ prompts[Len(prompts)].kind = "review"
                  /\ prompts[Len(prompts)].remaining = 1

(***************************************************************************)
(* C35: a run whose derived set is empty ends without an unhandled error   *)
(* and has inserted nothing, added nothing, made no backup and written     *)
(* nothing.                                                                *)
(***************************************************************************)
C35_EmptyDerivedSetIsHandled ==
    (RunEnded /\ new_visibility_scores.techniques = <<>>)
    => /\ outcome # "error"
       /\ ~ChangedInMemory
       /\ store = at_start.store
       /\ backups = at_start.backups

(***************************************************************************)
(* C36: the comment question is put at most once in a run, and it is put   *)
(* exactly when a derived technique is absent from the file; the comment   *)
(* of the run is set on the score entry of every derived technique, so an  *)
(* entry inserted into a record of the file carries the comment of the     *)
(* records that were added; in a run that adds nothing the inserted        *)
(* entries carry the comment of the template, which is empty.              *)
(***************************************************************************)
C36_OneCommentForAddedAndInserted ==
    Loaded =>
        LET mem == yaml_file_tech_admin.techniques
            old == at_start.store.techniques
        IN  /\ Cardinality(CommentPrompts) <= 1
            /\ (CommentPrompts # {}) <=> (NewIds # {})
            /\ \A i \in 1..Len(new_visibility_scores.techniques) :
                    new_visibility_scores.techniques[i].visibility.score_logbook[1].comment
                        = CommentGiven
            /\ \A r \in OldRecords :
                    Len(MemLogbook(r)) = Len(OldLogbook(r)) + 1
                    => /\ MemLogbook(r)[1].comment = CommentGiven
                       /\ \A i \in (Len(old) + 1)..Len(mem) :
                            mem[i].visibility[1].score_logbook[1].comment
                                = MemLogbook(r)[1].comment
                       /\ NewIds = {} => MemLogbook(r)[1].comment = EmptyComment
                       /\ outcome = "written" => FileLogbook(r)[1].comment = CommentGiven

\* a run that added technique T3 with the comment typed and inserted an
\* entry with that comment into a record of the file, and wrote the file
C36_Witness ==
    /\ Loaded
    /\ outcome = "written"
    /\ "T3" \in NewIds
    /\ CommentGiven = PromptComment
    /\ \E r \in OldRecords :
            /\ Len(MemLogbook(r)) = Len(OldLogbook(r)) + 1
            /\ MemLogbook(r)[1].comment = PromptComment
            /\ OldTechId(r) = "T2"

(***************************************************************************)
(* C37: for every technique object of the layer, the list of matched data  *)
(* sources holds exactly the data sources of the administration that are   *)
(* in the list the technique requires, each once; its length is the count  *)
(* the colour was chosen by and is at least 1; the object has a colour of  *)
(* the legend; and a technique none of whose required data sources is      *)
(* owned is not in the layer.                                              *)
(***************************************************************************)
C37_MatchedListIsColourCount ==
    Generated =>
        /\ \A n \in 1..Len(call.layer) :
                LET d == call.layer[n]
                    t == AttackTechniques[CHOOSE i \in 1..Len(AttackTechniques) :
                            AttackTechniques[i].technique_id = d.techniqueID]
                    matched == d.available_data_sources
                    ds_count == CountIn(t.x_mitre_data_sources, SeqToSet(call.my_ds))
                IN  /\ SeqToSet(matched)
                            = SeqToSet(t.x_mitre_data_sources) \cap SeqToSet(call.my_ds)
                    /\ \A i, j \in 1..Len(matched) : matched[i] = matched[j] => i = j
                    /\ Len(matched) = ds_count
                    /\ Len(matched) >= 1
                    /\ d.color = ColorTier(ds_count, Len(t.x_mitre_data_sources))
                    /\ d.color \in SeqToSet(LegendItems)
        /\ \A i \in 1..Len(AttackTechniques) :
                (\/ ~AttackTechniques[i].has_data_sources
                 \/ CountIn(AttackTechniques[i].x_mitre_data_sources,
                            SeqToSet(call.my_ds)) = 0)
                => AttackTechniques[i].technique_id \notin LayerIds

\* two of the four data sources of T1 are owned and are its matched list,
\* while T3 requires none of them and is not in the layer
C37_Witness ==
    /\ Generated
    /\ call.my_ds = <<"proc", "file">>
    /\ \E n \in 1..Len(call.layer) :
            /\ call.layer[n].techniqueID = "T1"
            /\ call.layer[n].available_data_sources = <<"proc", "file">>
            /\ call.layer[n].color = COLOR_DS_50p
    /\ "T3" \notin LayerIds

(***************************************************************************)
(* generic.py 372-385: backup_file on the names of the files.  A file name *)
(* is the list of its parts: <<text>> for text that holds neither '.yaml'  *)
(* nor '_backup_<n>', <<".yaml">>, and <<"_backup_", n>> for               *)
(* '_backup_<n>'.  The files that exist are the file itself and any of its *)
(* backups of suffix 1..MaxBackups.  The loop of line 380 is followed      *)
(* step by step; suffix is followed up to MaxSuffix, which a loop that     *)
(* ends never reaches.                                                     *)
(***************************************************************************)
MaxBackups == 4
MaxSuffix == MaxBackups + 2

Yaml == <<".yaml">>
BackupPart(n) == <<"_backup_", n>>

\* str.replace(old, new): every occurrence of old, from the left
RECURSIVE Replace(_, _, _)
Replace(name, old, new) ==
    IF Len(name) < Len(old) THEN name
    ELSE IF SubSeq(name, 1, Len(old)) = old
         THEN new \o Replace(SubSeq(name, Len(old) + 1, Len(name)), old, new)
         ELSE <<Head(name)>> \o Replace(Tail(name), old, new)

\* 'admin.yaml', 'admin.yml', 'admin_backup_1.yaml' and 'admin.yaml.yaml'
FileNames ==
    { <<<<"admin">>, Yaml>>,
      <<<<"admin">>, <<".yml">>>>,
      <<<<"admin">>, BackupPart(1), Yaml>>,
      <<<<"admin">>, Yaml, Yaml>> }

\* the name the code gives the backup of suffix n of a file
BackupName(filename, n) ==
    Replace(filename, <<Yaml>>, <<BackupPart(n), Yaml>>)

InitBackup ==
    /\ InitWith(NoScores, 0)
    /\ call \in {[op |-> "backup_file", filename |-> f,
                  files |-> {f} \cup {BackupName(f, n) : n \in S}] :
                    f \in FileNames, S \in SUBSET (1..MaxBackups)}

\* lines 378-379
EnterBackup ==
    /\ call.op = "backup_file"
    /\ call' = [op |-> "while", filename |-> call.filename, files |-> call.files,
                suffix |-> 1,
                backup_filename |-> Replace(call.filename, <<Yaml>>,
                                            <<BackupPart(1), Yaml>>)]
    /\ UNCHANGED <<store, backups, today, writes_left, pc, outcome,
                   new_visibility_scores, yaml_file_tech_admin, manually_scored,
                   auto_scored, mix_scores, updated_vis_score_cnt, answer, tech_update,
                   old_tech_idx, obj_idx, score_updates_handled, are_scores_updated,
                   prompts, at_start>>

\* lines 380-382: the name exists, the next one is formed
NextSuffix ==
    /\ call.op = "while"
    /\ call.backup_filename \in call.files
    /\ call' = [call EXCEPT
                    !.backup_filename =
                        Replace(@, <<BackupPart(call.suffix), Yaml>>,
                                <<BackupPart(call.suffix + 1), Yaml>>),
                    !.suffix = IF @ < MaxSuffix THEN @ + 1 ELSE @]
    /\ UNCHANGED <<store, backups, today, writes_left, pc, outcome,
                   new_visibility_scores, yaml_file_tech_admin, manually_scored,
                   auto_scored, mix_scores, updated_vis_score_cnt, answer, tech_update,
                   old_tech_idx, obj_idx, score_updates_handled, are_scores_updated,
                   prompts, at_start>>

\* lines 380 and 384: the name does not exist, the file is copied to it
CopyFile ==
    /\ call.op = "while"
    /\ call.backup_filename \notin call.files
    /\ call' = [call EXCEPT !.op = "copied",
                            !.files = @ \cup {call.backup_filename}]
    /\ UNCHANGED <<store, backups, today, writes_left, pc, outcome,
                   new_visibility_scores, yaml_file_tech_admin, manually_scored,
                   auto_scored, mix_scores, updated_vis_score_cnt, answer, tech_update,
                   old_tech_idx, obj_idx, score_updates_handled, are_scores_updated,
                   prompts, at_start>>

NextBackup == EnterBackup \/ NextSuffix \/ CopyFile

SpecBackup == InitBackup /\ [][NextBackup]_vars

\* the loop is the only thing the call does: a step that can be taken is taken
SpecBackupFair == SpecBackup /\ WF_vars(NextBackup)

(***************************************************************************)
(* C38: backup_file terminates for every existing file name and every set  *)
(* of existing backup files, and the backup it has written is              *)
(* '<name>_backup_<n>.yaml' for the smallest n >= 1 for which that file    *)
(* did not exist, <name> being the file name without its extension.        *)
(***************************************************************************)
C38_BackupTerminatesWithSmallestSuffix ==
    LET Named(filename, n) ==
            SubSeq(filename, 1, Len(filename) - 1) \o <<BackupPart(n), Yaml>>
    IN  /\ (call.op = "backup_file") ~> (call.op = "copied")
        /\ [](call.op = "copied" =>
                \E n \in 1..MaxSuffix :
                    /\ call.backup_filename = Named(call.filename, n)
                    /\ n = call.suffix
                    /\ \A m \in 1..(n - 1) :
                            Named(call.filename, m) \in call.files \ {call.backup_filename})

(***************************************************************************)
(* generic.py 424-463: ask_yes_no and ask_multiple_choice.  A line typed   *)
(* is the list of its characters.  The question is put again as long as    *)
(* the last line typed does not match the pattern; the lines typed are     *)
(* kept in typed, up to MaxInputs of them.                                 *)
(***************************************************************************)
MaxInputs == 3

\* the code point of a character
Ord(c) ==
    CASE c = " " -> 32
      [] c = "0" -> 48 [] c = "1" -> 49 [] c = "2" -> 50 [] c = "3" -> 51
      [] c = "4" -> 52 [] c = "5" -> 53 [] c = "6" -> 54
      [] c = "E" -> 69 [] c = "N" -> 78 [] c = "O" -> 79 [] c = "S" -> 83
      [] c = "Y" -> 89
      [] c = "e" -> 101 [] c = "n" -> 110 [] c = "o" -> 111 [] c = "s" -> 115
      [] c = "y" -> 121

\* the lines the user may type
Lines ==
    { <<>>, <<"0">>, <<"1">>, <<"2">>, <<"3">>, <<"4">>, <<"5">>, <<"6">>, <<"1", "2">>,
      <<"3", " ">>,
      <<"y">>, <<"Y">>, <<"y", "e", "s">>, <<"Y", "e", "S">>, <<"y", "e">>,
      <<"y", "e", "s", "s">>, <<"n">>, <<"N">>, <<"n", "o">>, <<"N", "O">>,
      <<"o", "n">> }

\* re.IGNORECASE: the letters A-Z are compared as a-z
IgnoreCase(text) ==
    [i \in 1..Len(text) |->
        IF Ord(text[i]) \in 65..90 THEN Ord(text[i]) + 32 ELSE Ord(text[i])]

Codes(text) == [i \in 1..Len(text) |-> Ord(text[i])]

\* line 433: re.match('^(y|yes|n|no)$', yes_no, re.IGNORECASE)
MatchesYesNo(yes_no) ==
    IgnoreCase(yes_no) \in {Codes(<<"y">>), Codes(<<"y", "e", "s">>),
                            Codes(<<"n">>), Codes(<<"n", "o">>)}

\* line 437: re.match('^(y|yes)$', yes_no, re.IGNORECASE)
MatchesYes(yes_no) ==
    IgnoreCase(yes_no) \in {Codes(<<"y">>), Codes(<<"y", "e", "s">>)}

\* mutant of MatchesChoice: the class of the pattern starts at 0
MatchesChoice_FromZero(text, list_answers) ==
    /\ Len(text) = 1
    /\ Ord(text[1]) \in 48..(48 + Len(list_answers))

\* line 458: re.match('(^[1-' + str(len(list_answers)) + ']{1}$)', answer), for
\* a list of fewer than ten answers: one character of '1' to the digit of
\* the length
MatchesChoice(text, list_answers) ==
    /\ Len(text) = 1
    /\ Ord(text[1]) \in 49..(48 + Len(list_answers))

\* int(answer) of a line of one digit
IntOf(text) == Ord(text[1]) - 48

\* list[i] of Python: a negative index counts from the end
Item(list, i) == IF i >= 0 THEN list[i + 1] ELSE list[Len(list) + i + 1]

\* the menus of data_source_mapping.py 375, 377 and 379
Menus ==
    {MenuAnswers(TRUE, FALSE, FALSE), MenuAnswers(FALSE, TRUE, FALSE),
     MenuAnswers(FALSE, FALSE, TRUE)}

InitAsk ==
    /\ InitWith(NoScores, 0)
    /\ call \in {[op |-> "ask_multiple_choice", list_answers |-> m, typed |-> <<>>] :
                    m \in Menus}
               \cup {[op |-> "ask_yes_no", list_answers |-> <<>>, typed |-> <<>>]}

\* the line typed last, '' before the first
LastTyped == IF call.typed = <<>> THEN <<>> ELSE call.typed[Len(call.typed)]

\* lines 458-462: the menu is shown and a line is read
TypeChoice(text) ==
    /\ call.op = "ask_multiple_choice"
    /\ ~MatchesChoice(LastTyped, call.list_answers)
    /\ Len(call.typed) < MaxInputs
    /\ call' = [call EXCEPT !.typed = Append(@, text)]
    /\ UNCHANGED <<store, backups, today, writes_left, pc, outcome,
                   new_visibility_scores, yaml_file_tech_admin, manually_scored,
                   auto_scored, mix_scores, updated_vis_score_cnt, answer, tech_update,
                   old_tech_idx, obj_idx, score_updates_handled, are_scores_updated,
                   prompts, at_start>>

\* lines 458 and 464
ReturnChoice ==
    /\ call.op = "ask_multiple_choice"
    /\ MatchesChoice(LastTyped, call.list_answers)
    /\ call' = [op |-> "returned", of |-> "ask_multiple_choice",
                list_answers |-> call.list_answers, typed |-> call.typed,
                result |-> Item(call.list_answers, IntOf(LastTyped) - 1)]
    /\ UNCHANGED <<store, backups, today, writes_left, pc, outcome,
                   new_visibility_scores, yaml_file_tech_admin, manually_scored,
                   auto_scored, mix_scores, updated_vis_score_cnt, answer, tech_update,
                   old_tech_idx, obj_idx, score_updates_handled, are_scores_updated,
                   prompts, at_start>>

\* lines 433-435: the question is put and a line is read
TypeYesNo(text) ==
    /\ call.op = "ask_yes_no"
    /\ ~MatchesYesNo(LastTyped)
    /\ Len(call.typed) < MaxInputs
    /\ call' = [call EXCEPT !.typed = Append(@, text)]
    /\ UNCHANGED <<store, backups, today, writes_left, pc, outcome,
                   new_visibility_scores, yaml_file_tech_admin, manually_scored,
                   auto_scored, mix_scores, updated_vis_score_cnt, answer, tech_update,
                   old_tech_idx, obj_idx, score_updates_handled, are_scores_updated,
                   prompts, at_start>>

\* lines 433 and 437-440
ReturnYesNo ==
    /\ call.op = "ask_yes_no"
    /\ MatchesYesNo(LastTyped)
    /\ call' = [op |-> "returned", of |-> "ask_yes_no",
                list_answers |-> call.list_answers, typed |-> call.typed,
                result |-> MatchesYes(LastTyped)]
    /\ UNCHANGED <<store, backups, today, writes_left, pc, outcome,
                   new_visibility_scores, yaml_file_tech_admin, manually_scored,
                   auto_scored, mix_scores, updated_vis_score_cnt, answer, tech_update,
                   old_tech_idx, obj_idx, score_updates_handled, are_scores_updated,
                   prompts, at_start>>

NextAsk ==
    \/ \E text \in Lines : TypeChoice(text)
    \/ ReturnChoice
    \/ \E text \in Lines : TypeYesNo(text)
    \/ ReturnYesNo

SpecAsk == InitAsk /\ [][NextAsk]_vars

(***************************************************************************)
(* C39: ask_multiple_choice has returned only after a line that is one     *)
(* digit from 1 to the number N of answers of the menu, every line before  *)
(* it being something else, and has returned the answer at that position,  *)
(* which is an answer of the menu shown; ask_yes_no has returned only      *)
(* after y, yes, n or no in any case, every line before it being something *)
(* else, and has returned true exactly for y or yes.                       *)
(***************************************************************************)
C39_PromptsReturnOnlyValidAnswers ==
    LET Digits == <<<<"1">>, <<"2">>, <<"3">>, <<"4">>, <<"5">>, <<"6">>, <<"7">>,
                    <<"8">>, <<"9">>>>
        N == Len(call.list_answers)
        IsChoice(text) == \E d \in 1..N : text = Digits[d]
        Yes == {<<"y">>, <<"Y">>, <<"y", "e", "s">>, <<"Y", "e", "S">>}
        No == {<<"n">>, <<"N">>, <<"n", "o">>, <<"N", "O">>}
        typed == call.typed
    IN  call.op = "returned" =>
            /\ typed # <<>>
            /\ IF call.of = "ask_multiple_choice"
               THEN /\ IsChoice(typed[Len(typed)])
                    /\ \A k \in 1..(Len(typed) - 1) : ~IsChoice(typed[k])
                    /\ \A d \in 1..N :
                            typed[Len(typed)] = Digits[d]
                            => call.result = call.list_answers[d]
                    /\ call.result \in SeqToSet(call.list_answers)
               ELSE /\ typed[Len(typed)] \in Yes \cup No
                    /\ \A k \in 1..(Len(typed) - 1) : typed[k] \notin Yes \cup No
                    /\ call.result = (typed[Len(typed)] \in Yes)

\* the mixed menu was answered with 6, with nothing and then with 4, and
\* the fourth answer was returned
C39_Witness ==
    /\ call.op = "returned"
    /\ call.of = "ask_multiple_choice"
    /\ Len(call.list_answers) = 5
    /\ call.typed = <<<<"6">>, <<>>, <<"4">>>>
    /\ call.result = V_UPDATE_ANSWER_2

(***************************************************************************)
(* generic.py 14-165: load_attack_data and the cache of ATT&CK data.  Time *)
(* is counted in steps of the clock, 0..MaxTime, and EXPIRE_TIME is a      *)
(* number of such steps.  The data obtained from the ATT&CK source at time *)
(* t is [fetched_at |-> t]; data built from other data has the fetched_at  *)
(* of its oldest part.  A cache file is None or <<[data, write_time]>>.    *)
(* The code names the data types by constants imported from constants; the *)
(* strings below stand for them.                                           *)
(***************************************************************************)
MaxTime == 4
EXPIRE_TIME == 2

DATA_TYPE_STIX_ALL_TECH == "all_tech"
DATA_TYPE_STIX_ALL_GROUPS == "all_groups"
DATA_TYPE_STIX_ALL_RELATIONSHIPS == "all_relationships"
DATA_TYPE_CUSTOM_TECH_BY_GROUP == "tech_by_group"

DataTypes ==
    {DATA_TYPE_STIX_ALL_TECH, DATA_TYPE_STIX_ALL_GROUPS,
     DATA_TYPE_STIX_ALL_RELATIONSHIPS, DATA_TYPE_CUSTOM_TECH_BY_GROUP}

\* lines 22-25: pickle.dump([data, dt.now()], f)
save_attack_data(cache, data, path, now) ==
    [cache EXCEPT ![path] = <<[data |-> data, write_time |-> now]>>]

\* lines 35-38: the cache file exists and has not expired
IsCached(cache, data_type, now) ==
    /\ cache[data_type] # None
    /\ ~((now - cache[data_type][1].write_time) >= EXPIRE_TIME)

\* lines 35-165 for a type that the ATT&CK client delivers
LoadFromSource(cache, data_type, now) ==
    IF IsCached(cache, data_type, now)
    THEN [cache |-> cache, attack_data |-> cache[data_type][1].data]
    ELSE [cache |-> save_attack_data(cache, [fetched_at |-> now], data_type, now),
          attack_data |-> [fetched_at |-> now]]

Oldest(times) == CHOOSE t \in times : \A u \in times : t <= u

\* lines 35-165; DATA_TYPE_CUSTOM_TECH_BY_GROUP (lines 50-86) is built from
\* what load_attack_data returns for the groups, the relationships and the
\* techniques
load_attack_data(cache, data_type, now) ==
    IF data_type # DATA_TYPE_CUSTOM_TECH_BY_GROUP
    THEN LoadFromSource(cache, data_type, now)
    ELSE IF IsCached(cache, data_type, now)
    THEN [cache |-> cache, attack_data |-> cache[data_type][1].data]
    ELSE LET groups == LoadFromSource(cache, DATA_TYPE_STIX_ALL_GROUPS, now)
             relationships == LoadFromSource(groups.cache,
                                             DATA_TYPE_STIX_ALL_RELATIONSHIPS, now)
             techniques == LoadFromSource(relationships.cache,
                                          DATA_TYPE_STIX_ALL_TECH, now)
             attack_data == [fetched_at |->
                                Oldest({groups.attack_data.fetched_at,
                                        relationships.attack_data.fetched_at,
                                        techniques.attack_data.fetched_at})]
         IN  [cache |-> save_attack_data(techniques.cache, attack_data, data_type, now),
              attack_data |-> attack_data]

InitCache ==
    /\ InitWith(NoScores, 0)
    /\ call = [op |-> "idle", now |-> 0, cache |-> [d \in DataTypes |-> None]]

\* the clock
Tick ==
    /\ call.now < MaxTime
    /\ call' = [op |-> "idle", now |-> call.now + 1, cache |-> call.cache]
    /\ UNCHANGED <<store, backups, today, writes_left, pc, outcome,
                   new_visibility_scores, yaml_file_tech_admin, manually_scored,
                   auto_scored, mix_scores, updated_vis_score_cnt, answer, tech_update,
                   old_tech_idx, obj_idx, score_updates_handled, are_scores_updated,
                   prompts, at_start>>

\* a call of load_attack_data(data_type)
LoadAttackData(data_type) ==
    /\ LET r == load_attack_data(call.cache, data_type, call.now)
       IN  call' = [op |-> "load_attack_data", now |-> call.now, cache |-> r.cache,
                    data_type |-> data_type, attack_data |-> r.attack_data,
                    before |-> call.cache]
    /\ UNCHANGED <<store, backups, today, writes_left, pc, outcome,
                   new_visibility_scores, yaml_file_tech_admin, manually_scored,
                   auto_scored, mix_scores, updated_vis_score_cnt, answer, tech_update,
                   old_tech_idx, obj_idx, score_updates_handled, are_scores_updated,
                   prompts, at_start>>

NextCache == Tick \/ \E data_type \in DataTypes : LoadAttackData(data_type)

SpecCache == InitCache /\ [][NextCache]_vars

(***************************************************************************)
(* C31: a call of load_attack_data has returned the cached data, leaving   *)
(* the cache as it was, exactly when a cache entry of the type existed and *)
(* was written less than EXPIRE_TIME ago; otherwise it has fetched the     *)
(* data, stored it with the current time as write time and returned it.    *)
(* The data returned is never older than EXPIRE_TIME, and a call at the    *)
(* time an entry of its type was written is served from the cache.         *)
(***************************************************************************)
C31_CacheServesOnlyFreshData ==
    call.op = "load_attack_data" =>
        LET data_type == call.data_type
            entry == call.before[data_type]
            served == /\ call.cache = call.before
                      /\ entry # None
                      /\ call.attack_data = entry[1].data
            fetched == /\ call.attack_data = [fetched_at |-> call.now]
                       /\ call.cache[data_type] =
                            <<[data |-> call.attack_data, write_time |-> call.now]>>
        IN  /\ IF entry # None /\ call.now - entry[1].write_time < EXPIRE_TIME
               THEN served
               ELSE fetched
            /\ call.now - call.attack_data.fetched_at < EXPIRE_TIME
            /\ (entry # None /\ entry[1].write_time = call.now) => served
====
